---- MODULE Spec2Model ----
(***************************************************************************)
(* Model of the MASH flasher scripts: the pipeline that partitions a       *)
(* target disk, clones a loop-attached Fedora image onto it, rewrites the  *)
(* boot identity (fstab, GRUB stub, BLS entries) and tears everything      *)
(* down.  Text is modelled as sequences of one-character strings so that   *)
(* the regular expressions of patch_bls_entries are evaluated character by *)
(* character.                                                              *)
(***************************************************************************)
EXTENDS Integers, Sequences, FiniteSets, TLC

----------------------------------------------------------------------------
(* Bounds of the model *)

\* most tokens on the options line of a generated BLS entry
MaxTokens == 3

\* most teardown commands that fail on a live mount or loop device
\* ("target is busy") in one run
MaxBusy == 1

\* patch runs made on one entries directory
MaxPatchRuns == 2

----------------------------------------------------------------------------
(* Characters and character classes of Python's re module *)

Digits == {"0", "1", "2", "3", "4", "5", "6", "7", "8", "9"}
Lower == {"a", "b", "c", "d", "e", "f", "g", "h", "i", "j", "k", "l", "m",
          "n", "o", "p", "q", "r", "s", "t", "u", "v", "w", "x", "y", "z"}
Upper == {"A", "B", "C", "D", "E", "F", "G", "H", "I", "J", "K", "L", "M",
          "N", "O", "P", "Q", "R", "S", "T", "U", "V", "W", "X", "Y", "Z"}

\* \w
WordChars == Digits \cup Lower \cup Upper \cup {"_"}
\* \s
SpaceChars == {" ", "\t", "\n", "\r"}
\* [0-9a-fA-F-]
HexDash == Digits \cup {"a", "b", "c", "d", "e", "f"}
                  \cup {"A", "B", "C", "D", "E", "F"} \cup {"-"}
\* every character of the model's texts
AllChars == WordChars \cup SpaceChars \cup {"=", "/", "-", ".", ",", ":", "$"}
\* [^\s]
NonSpace == AllChars \ SpaceChars

\* literals
L_options == <<"o", "p", "t", "i", "o", "n", "s", " ">>
L_root == <<"r", "o", "o", "t", "=">>
L_rootUUID == <<"r", "o", "o", "t", "=", "U", "U", "I", "D", "=">>
L_rootflags == <<"r", "o", "o", "t", "f", "l", "a", "g", "s", "=">>
L_subvolroot == <<"r", "o", "o", "t", "f", "l", "a", "g", "s", "=",
                  "s", "u", "b", "v", "o", "l", "=", "r", "o", "o", "t">>

\* \b at position p: between s[p-1] and s[p]
Boundary(s, p) ==
  LET l == p > 1 /\ s[p - 1] \in WordChars
      r == p <= Len(s) /\ s[p] \in WordChars
  IN  l # r

\* s[i..] starts with lit
HasPrefixAt(s, i, lit) ==
  /\ i + Len(lit) - 1 <= Len(s)
  /\ \A k \in 1..Len(lit) : s[i + k - 1] = lit[k]

\* str.startswith
startswith(s, lit) == HasPrefixAt(s, 1, lit)

\* length of the longest run of characters of Cls that starts at s[j]
RunLen(s, j, Cls) ==
  CHOOSE n \in 0..(Len(s) + 1 - j) :
    /\ \A k \in 0..(n - 1) : s[j + k] \in Cls
    /\ j + n > Len(s) \/ s[j + n] \notin Cls

\* the pattern  [\b] lit Cls+ [\b]  matched at position i: the index after
\* the (greedy, backtracking) match, or 0 when there is no match at i
MatchEnd(s, i, lit, Cls, wb) ==
  IF ~((wb => Boundary(s, i)) /\ HasPrefixAt(s, i, lit)) THEN 0
  ELSE LET j == i + Len(lit)
           r == RunLen(s, j, Cls)
           ok == {n \in 1..r : wb => Boundary(s, j + n)}
       IN  IF ok = {} THEN 0
           ELSE j + (CHOOSE n \in ok : \A m \in ok : m <= n)

\* re.search(pattern, s) is not None
re_search(s, lit, Cls, wb) == \E i \in 1..Len(s) : MatchEnd(s, i, lit, Cls, wb) > 0

\* re.search(r"\blit", s) is not None
re_search_lit(s, lit) == \E i \in 1..Len(s) : Boundary(s, i) /\ HasPrefixAt(s, i, lit)

\* the scan of re.sub from position i: the text up to the leftmost match
\* at or after i is kept, the match is replaced, the scan resumes after it
RECURSIVE SubFrom(_, _, _, _, _, _)
SubFrom(s, i, lit, Cls, wb, repl) ==
  LET starts == {m \in i..Len(s) : MatchEnd(s, m, lit, Cls, wb) > 0}
  IN  IF starts = {} THEN SubSeq(s, i, Len(s))
      ELSE LET m == CHOOSE x \in starts : \A y \in starts : x <= y
           IN  SubSeq(s, i, m - 1) \o repl
                 \o SubFrom(s, MatchEnd(s, m, lit, Cls, wb), lit, Cls, wb, repl)

\* re.sub(pattern, repl, s): every non-overlapping match, left to right
re_sub(s, lit, Cls, wb, repl) == SubFrom(s, 1, lit, Cls, wb, repl)

\* str.strip(): from the first to the last character that is not whitespace
strip(s) ==
  LET ink == {i \in 1..Len(s) : s[i] \notin SpaceChars}
  IN  IF ink = {} THEN <<>>
      ELSE SubSeq(s, CHOOSE a \in ink : \A b \in ink : a <= b,
                     CHOOSE a \in ink : \A b \in ink : b <= a)

\* str.splitlines(True): the lines with their line ends kept
RECURSIVE SplitFrom(_, _)
SplitFrom(s, i) ==
  IF i > Len(s) THEN <<>>
  ELSE LET ends == {e \in i..Len(s) : s[e] = "\n"}
       IN  IF ends = {} THEN <<SubSeq(s, i, Len(s))>>
           ELSE LET e == CHOOSE x \in ends : \A y \in ends : x <= y
                IN  <<SubSeq(s, i, e)>> \o SplitFrom(s, e + 1)

splitlines(s) == SplitFrom(s, 1)

\* "".join(lines)
RECURSIVE join(_)
join(lines) == IF lines = <<>> THEN <<>> ELSE Head(lines) \o join(Tail(lines))

\* substring test:  lit in s
contains(s, lit) == \E i \in 1..Len(s) : HasPrefixAt(s, i, lit)

\* str.replace(old, new): every non-overlapping occurrence
RECURSIVE ReplaceFrom(_, _, _, _)
ReplaceFrom(s, i, old, new) ==
  LET starts == {m \in i..Len(s) : HasPrefixAt(s, m, old)}
  IN  IF starts = {} THEN SubSeq(s, i, Len(s))
      ELSE LET m == CHOOSE x \in starts : \A y \in starts : x <= y
           IN  SubSeq(s, i, m - 1) \o new \o ReplaceFrom(s, m + Len(old), old, new)

replace(s, old, new) == ReplaceFrom(s, 1, old, new)

----------------------------------------------------------------------------
(* patch_bls_entries *)

\* an entries directory that does not exist; an existing one holds the
\* contents of its *.conf files in sorted order
NoDir == [exists |-> FALSE, files |-> <<>>]
Dir(files) == [exists |-> TRUE, files |-> files]

\* a rewrite that adds its two tokens without looking for present ones
patch_line_blind(line, root_uuid) ==
  IF startswith(line, L_options)
  THEN LET opts0 == strip(SubSeq(line, Len(L_options) + 1, Len(line)))
       IN  L_options \o L_rootUUID \o root_uuid \o <<" ">> \o opts0
             \o <<" ">> \o L_subvolroot \o <<"\n">>
  ELSE line

\* the rewrite of one line of an entry file (the body of the inner loop)
patch_line(line, root_uuid) ==
  IF startswith(line, L_options)
  THEN LET opts0 == strip(SubSeq(line, Len(L_options) + 1, Len(line)))
           newroot == L_rootUUID \o root_uuid
           opts1 == IF re_search(opts0, L_rootUUID, HexDash, TRUE)
                    THEN re_sub(opts0, L_rootUUID, HexDash, TRUE, newroot)
                    ELSE IF re_search(opts0, L_root, NonSpace, TRUE)
                    THEN re_sub(opts0, L_root, NonSpace, TRUE, newroot)
                    ELSE newroot \o <<" ">> \o opts0
           opts2 == IF re_search_lit(opts1, L_rootflags)
                    THEN re_sub(opts1, L_rootflags, NonSpace, TRUE, L_subvolroot)
                    ELSE opts1 \o <<" ">> \o L_subvolroot
       IN  L_options \o strip(opts2) \o <<"\n">>
  ELSE line

\* a rewrite that splits with splitlines() and so loses the line ends
patch_file_noends(content, root_uuid) ==
  LET txt == splitlines(content)
      bare(l) == IF l # <<>> /\ l[Len(l)] = "\n" THEN SubSeq(l, 1, Len(l) - 1) ELSE l
  IN  join([k \in 1..Len(txt) |-> patch_line(bare(txt[k]), root_uuid)])

\* the rewrite of one entry file: read_text, splitlines, loop, write_text
patch_file(content, root_uuid) ==
  LET txt == splitlines(content)
  IN  join([k \in 1..Len(txt) |-> patch_line(txt[k], root_uuid)])

\* a patcher that makes the directory and writes a default entry when it
\* finds none
patch_bls_entries_default(dir, root_uuid) ==
  IF ~dir.exists \/ dir.files = <<>>
  THEN Dir(<< L_options \o L_rootUUID \o root_uuid \o <<" ">> \o L_subvolroot \o <<"\n">> >>)
  ELSE Dir([k \in 1..Len(dir.files) |-> patch_file(dir.files[k], root_uuid)])

\* patch_bls_entries of the argparse flashers
patch_bls_entries(dir, root_uuid) ==
  IF ~dir.exists THEN dir
  ELSE IF dir.files = <<>> THEN dir
  ELSE Dir([k \in 1..Len(dir.files) |-> patch_file(dir.files[k], root_uuid)])

\* the rewrite of one entry file by the hard-coded MBR flasher
patch_file_simple(content, root_uuid) ==
  LET c1 == re_sub(content, L_rootUUID, HexDash, FALSE, L_rootUUID \o root_uuid)
  IN  IF ~contains(c1, L_subvolroot)
      THEN replace(c1, L_options, L_options \o L_subvolroot \o <<" ">>)
      ELSE c1

\* patch_bls_entries of the hard-coded MBR flasher
patch_bls_entries_simple(dir, root_uuid) ==
  IF ~dir.exists THEN dir
  ELSE Dir([k \in 1..Len(dir.files) |-> patch_file_simple(dir.files[k], root_uuid)])

----------------------------------------------------------------------------
(* State of one run of a flasher script *)

----------------------------------------------------------------------------
(* Sizes and partition requests *)

DigitSeq == <<"0", "1", "2", "3", "4", "5", "6", "7", "8", "9">>
LowerSeq == <<"a", "b", "c", "d", "e", "f", "g", "h", "i", "j", "k", "l", "m",
              "n", "o", "p", "q", "r", "s", "t", "u", "v", "w", "x", "y", "z">>
UpperSeq == <<"A", "B", "C", "D", "E", "F", "G", "H", "I", "J", "K", "L", "M",
              "N", "O", "P", "Q", "R", "S", "T", "U", "V", "W", "X", "Y", "Z">>

L_mib == <<"m", "i", "b">>
L_gib == <<"g", "i", "b">>
L_mb == <<"m", "b">>
L_MiB == <<"M", "i", "B">>
L_pct == <<"%">>

\* str(n) of a natural number
RECURSIVE str(_)
str(n) ==
  IF n < 10 THEN << DigitSeq[n + 1] >>
  ELSE str(n \div 10) \o << DigitSeq[(n % 10) + 1] >>

\* int(ds) of a string of decimal digits
RECURSIVE int(_)
int(ds) ==
  IF ds = <<>> THEN 0
  ELSE 10 * int(SubSeq(ds, 1, Len(ds) - 1))
         + ((CHOOSE k \in 1..10 : DigitSeq[k] = ds[Len(ds)]) - 1)

\* str.lower
lower(s) ==
  [i \in 1..Len(s) |->
     IF s[i] \in Upper THEN LowerSeq[CHOOSE k \in 1..26 : UpperSeq[k] = s[i]]
     ELSE s[i]]

\* parse_size_to_mib: ^(\d+)\s*(MiB|GiB)$ with re.I on the stripped text;
\* -1 stands for die()
parse_size_to_mib(s) ==
  LET t == strip(s)
      d == RunLen(t, 1, Digits)
      w == RunLen(t, 1 + d, SpaceChars)
      unit == lower(SubSeq(t, 1 + d + w, Len(t)))
      v == int(SubSeq(t, 1, d))
  IN  IF d = 0 \/ unit \notin {L_mib, L_gib} THEN -1
      ELSE IF unit = L_mib THEN v ELSE v * 1024

EFI_SIZE_MIB == 512
BOOT_SIZE_MIB == 2048
\* ROOT_SIZE_TIB = 1.8, in tenths of a TiB
ROOT_SIZE_TIB10 == 18

\* tib_to_mib, of a size given in tenths of a TiB: int(round(tib * 1024 * 1024))
tib_to_mib(tib10) == (tib10 * 1024 * 1024 + 5) \div 10

\* the size in MiB of the disk of a host: a 4 TB drive, or a 32 GB stick
DiskMiB(f) == IF f = "disk_small" THEN 30517 ELSE 3815447

\* the offset in MiB that parted reads from a start or end argument on a
\* disk of disk MiB, dflt being the unit in force for a bare number;
\* -1 for an argument parted cannot read
parted_mib(s, dflt, disk) ==
  LET d == RunLen(s, 1, Digits)
      v == int(SubSeq(s, 1, d))
      unit == lower(SubSeq(s, 1 + d, Len(s)))
      u == IF unit = <<>> THEN dflt ELSE unit
  IN  CASE d = 0 -> -1
        [] d > 0 /\ u = L_mib -> v
        [] d > 0 /\ u = L_gib -> v * 1024
        [] d > 0 /\ u = L_pct -> (v * disk) \div 100
        [] d > 0 /\ u = L_mb -> (v * 15625) \div 16384
        [] OTHER -> -1

\* one mkpart command: filesystem type, start and end as written on the
\* command line, and the unit in force for bare numbers
MkPart(fs, start, end, unit) == [fs |-> fs, start |-> start, end |-> end, unit |-> unit]

\* the mkpart commands of the argparse flashers for a parsed command line
\* whose sizes parse_size_to_mib accepted
mkparts_args(a) ==
  LET efi_end_mib == parse_size_to_mib(a.efi_size)
      boot_size_mib == parse_size_to_mib(a.boot_size)
      boot_end_mib == efi_end_mib + boot_size_mib
      efi_start == <<"4">> \o L_MiB
      efi_end == str(efi_end_mib) \o L_MiB
      boot_start == efi_end
      boot_end == str(boot_end_mib) \o L_MiB
      p70 == <<"7", "0", "%">>
      p100 == <<"1", "0", "0", "%">>
  IN  << MkPart("fat32", efi_start, efi_end, L_mb),
         MkPart("ext4", boot_start, boot_end, L_mb) >>
      \o (IF a.scheme = "gpt"
          THEN IF a.make_data
               THEN << MkPart("btrfs", boot_end, p70, L_mb),
                       MkPart("ext4", p70, p100, L_mb) >>
               ELSE << MkPart("btrfs", boot_end, p100, L_mb) >>
          ELSE << MkPart("btrfs", boot_end, a.root_end, L_mb) >>
               \o (IF a.make_data
                   THEN << MkPart("ext4", a.root_end, p100, L_mb) >>
                   ELSE <<>>))

\* the mkpart commands of Holy Loop/holy-loop-fedora-ninja-mbr4.py
mkparts_holy4 ==
  LET start_mib == 4
      p1_end == start_mib + EFI_SIZE_MIB
      p2_end == p1_end + BOOT_SIZE_MIB
      p3_end == p2_end + tib_to_mib(ROOT_SIZE_TIB10)
  IN  << MkPart("fat32", str(start_mib), str(p1_end), L_mib),
         MkPart("ext4", str(p1_end), str(p2_end), L_mib),
         MkPart("btrfs", str(p2_end), str(p3_end), L_mib),
         MkPart("ext4", str(p3_end), <<"1", "0", "0", "%">>, L_mib) >>

\* the mkpart commands of script v started with the command line a
mkparts(v, a) == IF v = "holy4" THEN mkparts_holy4 ELSE mkparts_args(a)

\* parted's reading of a mkpart command on a disk of disk MiB
Resolved(m, disk) ==
  [fs |-> m.fs,
   start |-> parted_mib(m.start, m.unit, disk),
   end |-> parted_mib(m.end, m.unit, disk)]

\* parted makes the partition: it can read both offsets, the partition is
\* not empty and it lies on the disk
parted_accepts(r, disk) ==
  /\ r.start >= 0 /\ r.end >= 0
  /\ r.start < r.end
  /\ r.end <= disk

----------------------------------------------------------------------------
VARIABLES
  variant,      \* the script that runs: "final", "mbr4" or "holy"
  args,         \* the parsed command line: scheme, make_data, no_dracut
  phase,        \* "try", "finally", "exited"; "rewrite" in SpecBLS
  pc,           \* index in Program of the next step of the try block
  exc,          \* the exception in flight: "none" or its class name
  cpos,         \* 0 outside cleanup(), else the index of its next item
  finalCleanup, \* the finally block's teardown: "notrun", "running", "completed", "aborted"
  intInFinally, \* an interrupt arrived while the finally block was running
  has_home,     \* the image has a home subvolume (has_home of main), FALSE until observed
  has_var,      \* has_var of main
  loopdev,      \* the variable loopdev of main: "None" or the device name
  attached,     \* the kernel has the image attached to the loop device
  attaches,     \* successful losetup attaches of the run
  detaches,     \* losetup -d commands issued in the run
  mtab,         \* the mounted targets, in the order they were mounted
  acquired,     \* every mount the run made, in order
  unmounted,    \* every mount the run removed, in order
  tdlog,        \* the commands issued by the current (or last) teardown
  tdfail,       \* teardown commands that failed on a live mount or device
  partUuid,     \* filesystem UUID on each partition of the target disk
  ids,          \* efi_uuid, boot_uuid, root_uuid, data_uuid of main
  efi,          \* files of the destination EFI partition
  bls,          \* loader/entries on the destination boot partition
  fstab,        \* etc/fstab in the destination root subvolume
  exitcode,     \* exit status of the process, -1 while it runs
  patcher,      \* SpecBLS: the patch_bls_entries under test
  blsOrig,      \* SpecBLS: the entries directory before the first patch run
  blsOnce,      \* SpecBLS: the entries directory after the first patch run
  patchRuns,    \* SpecBLS: patch runs made so far
  fault,        \* what is wrong with the host the script runs on, or "none"
  last,         \* outcome of the last step of the try block: "none", "ok", "ignored", "failed"
  parts,        \* SpecLayout: the partitions requested from parted, as parted read them
  orch          \* SpecFullLoop: the state of mash_full_loop.main

vars == <<variant, args, phase, pc, exc, cpos, finalCleanup, intInFinally,
          has_home, has_var, loopdev, attached, attaches, detaches, mtab,
          acquired, unmounted, tdlog, tdfail, partUuid, ids, efi, bls, fstab,
          exitcode, patcher, blsOrig, blsOnce, patchRuns, fault, last, parts, orch>>

----------------------------------------------------------------------------
(* Paths, UUIDs and files *)

\* mash_full_loop.main has not been called
NotStarted ==
  [pc |-> "idle", disk |-> "/dev/sda", dry_run |-> FALSE,
   skip_bootstrap_stage |-> FALSE, skip_offline_locale |-> FALSE,
   auto_firstboot |-> FALSE, flashed |-> "none", mnt_root |-> FALSE,
   mounts |-> {}, exc |-> "none", code |-> -1]

\* SRC and DST of main
SRC == <<"mnt", "ninja_src">>
DST == <<"mnt", "ninja_dst">>

\* p is q or lies below q
Under(p, q) == Len(q) <= Len(p) /\ SubSeq(p, 1, Len(q)) = q

PartDigit == <<"1", "2", "3", "4">>
\* UUIDs of the filesystems inside the source image (loop partitions 1..3)
SrcUuid(n) == <<"a", PartDigit[n]>>
\* UUIDs the target partitions carry before the run
StaleUuid(n) == <<"c", PartDigit[n]>>
\* UUIDs mkfs gives the target partitions in this run
FreshUuid(n) == <<"d", PartDigit[n]>>
\* the UUID in a grub.cfg shipped inside the firmware directory
FwUuid == <<"f", "2">>

\* destination partition behind each fstab mount point
PartOf(mp) ==
  CASE mp = "/" -> 3 [] mp = "/home" -> 3 [] mp = "/var" -> 3
    [] mp = "/boot" -> 2 [] mp = "/boot/efi" -> 1 [] mp = "/data" -> 4

GrubCfg == "EFI/fedora/grub.cfg"
EfiFiles == {GrubCfg, "EFI/fedora/grubaa64.efi", "EFI/BOOT/BOOTAA64.EFI",
             "RPI_EFI.fd", "start4.elf", "config.txt"}
\* files of the EFI partition that live in its EFI/ directory
InEfiDir == {GrubCfg, "EFI/fedora/grubaa64.efi", "EFI/BOOT/BOOTAA64.EFI"}

Absent == [kind |-> "absent", search |-> <<>>]
File(kind) == [kind |-> kind, search |-> <<>>]
EmptyTree == [f \in EfiFiles |-> Absent]

\* SRC/efi/EFI of the image: Fedora's loaders, with or without its own stub
SrcEfiTree(withGrub) ==
  [f \in EfiFiles |->
     IF f = GrubCfg THEN (IF withGrub THEN [kind |-> "image", search |-> SrcUuid(2)] ELSE Absent)
     ELSE IF f \in InEfiDir THEN File("image") ELSE Absent]

\* the firmware directory: the PFTF release, with or without an EFI/fedora/grub.cfg
FwTree(withGrub) ==
  [f \in EfiFiles |->
     IF f = GrubCfg THEN (IF withGrub THEN [kind |-> "pftf", search |-> FwUuid] ELSE Absent)
     ELSE IF f \in {"RPI_EFI.fd", "start4.elf", "config.txt"} THEN File("pftf") ELSE Absent]

\* rsync -rltD [--delete] src/ dst/ restricted to the files of scope
rsync_tree(src, dst, scope, delete) ==
  [f \in EfiFiles |->
     IF f \notin scope THEN dst[f]
     ELSE IF src[f].kind # "absent" THEN src[f]
     ELSE IF delete THEN Absent ELSE dst[f]]

\* the --delete of rsync_vfat_safe in each script
vfat_delete == [final |-> TRUE, mbr4 |-> FALSE, holy |-> FALSE, holy4 |-> FALSE,
                v6 |-> FALSE]

\* a stub writer that leaves an existing grub.cfg alone
write_grub_stub_if_missing(tree, boot_uuid) ==
  IF tree[GrubCfg].kind # "absent" THEN tree
  ELSE [tree EXCEPT ![GrubCfg] = [kind |-> "stub", search |-> boot_uuid]]

\* write_grub_stub: the stub's search line carries boot_uuid
write_grub_stub(tree, boot_uuid) ==
  [tree EXCEPT ![GrubCfg] = [kind |-> "stub", search |-> boot_uuid]]

\* blkid pointed at partition n of the loop device instead of the disk
blkid_uuid_loop(n) == SrcUuid(n)

\* blkid -s UUID -o value <disk><n>
blkid_uuid(n) == partUuid[n]

----------------------------------------------------------------------------
(* The try block of main, one record per step.  err is what a failure of   *)
(* the step raises: "CalledProcessError" (sh with check=True), "SystemExit"*)
(* (die), "ignore" (sh with check=False) or "never" (the step runs no      *)
(* external command).                                                      *)

Step(op, a, n, ln, err) == [op |-> op, a |-> a, n |-> n, ln |-> ln, err |-> err]
Cmd(op, ln, err) == Step(op, <<>>, 0, ln, err)
\* a mount whose exit status is not looked at
Mount_unchecked(path, ln, err) == Step("mount", path, 0, ln, "ignore")

Mount(path, ln, err) == Step("mount", path, 0, ln, err)
When(c, steps) == IF c THEN steps ELSE <<>>

CPE == "CalledProcessError"
DIE == "SystemExit"
FNF == "FileNotFoundError"

\* a flasher that has no way to skip its dracut block
dracut_never_skipped == FALSE

\* "if not args.no_dracut:" guards the chroot mounts and dracut
dracut_skipped == args.no_dracut

\* main of holy-loop-fedora-ninja-final.py, lines 273-530
ProgFinal ==
  << Cmd("lsblk_tree", 275, "ignore"),
     Cmd("lsblk_mountpoints", 282, CPE),
     Cmd("umount_disk", 284, "ignore"),
     Cmd("cleanup", 285, "never"),
     Cmd("wipefs", 289, "ignore"),
     Cmd("udev_settle", 290, "ignore"),
     Cmd("parse_size", 294, DIE),
     Cmd("parse_size", 295, DIE) >>
  \o (IF args.scheme = "gpt"
      THEN << Step("parted", <<"mklabel", "gpt">>, 0, 304, CPE),
              Step("parted", <<"mkpart", "fat32", "4MiB", "efi_end">>, 1, 305, CPE),
              Step("parted", <<"set", "esp">>, 1, 306, CPE),
              Step("parted", <<"mkpart", "ext4", "efi_end", "boot_end">>, 2, 307, CPE) >>
           \o (IF args.make_data
               THEN << Step("parted", <<"mkpart", "btrfs", "boot_end", "70%">>, 3, 309, CPE),
                       Step("parted", <<"mkpart", "ext4", "70%", "100%">>, 4, 310, CPE) >>
               ELSE << Step("parted", <<"mkpart", "btrfs", "boot_end", "100%">>, 3, 312, CPE) >>)
      ELSE << Step("parted", <<"mklabel", "msdos">>, 0, 315, CPE),
              Step("parted", <<"mkpart", "fat32", "4MiB", "efi_end">>, 1, 316, CPE),
              Step("parted", <<"set", "boot">>, 1, 317, CPE),
              Step("parted", <<"set", "lba">>, 1, 318, CPE),
              Step("parted", <<"mkpart", "ext4", "efi_end", "boot_end">>, 2, 319, CPE),
              Step("parted", <<"mkpart", "btrfs", "boot_end", "mbr_root_end">>, 3, 320, CPE) >>
           \o When(args.make_data,
                   << Step("parted", <<"mkpart", "ext4", "mbr_root_end", "100%">>, 4, 322, CPE) >>))
  \o << Step("parted", <<"print">>, 0, 324, CPE),
        Cmd("udev_settle", 325, "ignore"),
        Step("mkfs", <<"vfat">>, 1, 334, CPE),
        Step("mkfs", <<"ext4">>, 2, 335, CPE),
        Step("mkfs", <<"btrfs">>, 3, 336, CPE) >>
  \o When(args.make_data, << Step("mkfs", <<"ext4">>, 4, 338, CPE) >>)
  \o << Cmd("udev_settle", 340, "ignore"),
        Cmd("losetup", 344, CPE),
        Cmd("lsblk_loop", 345, CPE),
        Mount(SRC \o <<"efi">>, 360, CPE),
        Mount(SRC \o <<"boot">>, 361, CPE),
        Mount(SRC \o <<"root_top">>, 362, CPE),
        Cmd("btrfs_subvolume_list", 364, CPE),
        Cmd("require_root_subvol", 368, DIE),
        Mount(SRC \o <<"root_sub_root">>, 371, CPE) >>
  \o When(has_home, << Mount(SRC \o <<"root_sub_home">>, 373, CPE) >>)
  \o When(has_var, << Mount(SRC \o <<"root_sub_var">>, 375, CPE) >>)
  \o << Mount(DST \o <<"efi">>, 386, CPE),
        Mount(DST \o <<"boot">>, 387, CPE),
        Mount(DST \o <<"root_top">>, 388, CPE),
        Step("btrfs_subvolume_create", <<"root">>, 0, 392, CPE) >>
  \o When(has_home, << Step("btrfs_subvolume_create", <<"home">>, 0, 394, CPE) >>)
  \o When(has_var, << Step("btrfs_subvolume_create", <<"var">>, 0, 396, CPE) >>)
  \o << Mount(DST \o <<"root_sub_root">>, 399, CPE) >>
  \o When(has_home, << Mount(DST \o <<"root_sub_home">>, 401, CPE) >>)
  \o When(has_var, << Mount(DST \o <<"root_sub_var">>, 403, CPE) >>)
  \o << Step("rsync_progress", <<"root">>, 0, 406, DIE) >>
  \o When(has_home, << Step("rsync_progress", <<"home">>, 0, 408, DIE) >>)
  \o When(has_var, << Step("rsync_progress", <<"var">>, 0, 410, DIE) >>)
  \o << Step("rsync_progress", <<"boot">>, 0, 413, DIE),
        Mount(DST \o <<"root_sub_root", "boot">>, 421, CPE),
        Mount(DST \o <<"root_sub_root", "boot", "efi">>, 423, CPE),
        Cmd("rsync_efi_tree", 428, CPE),
        Cmd("rsync_pftf", 433, CPE),
        Cmd("write_config", 451, "never"),
        Step("blkid", <<"efi_uuid">>, 1, 455, CPE),
        Step("blkid", <<"boot_uuid">>, 2, 456, CPE),
        Step("blkid", <<"root_uuid">>, 3, 457, CPE) >>
  \o When(args.make_data, << Step("blkid", <<"data_uuid">>, 4, 467, CPE) >>)
  \o << Cmd("write_fstab", 473, "never"),
        Cmd("patch_bls_entries", 478, "never") >>
  \o When(~dracut_skipped,
          << Cmd("chmod", 493, "ignore"),
             Cmd("chmod", 494, "ignore"),
             Mount(DST \o <<"root_sub_root", "dev">>, 497, CPE),
             Mount(DST \o <<"root_sub_root", "dev", "pts">>, 498, "ignore"),
             Mount(DST \o <<"root_sub_root", "proc">>, 499, CPE),
             Mount(DST \o <<"root_sub_root", "sys">>, 500, CPE),
             Mount(DST \o <<"root_sub_root", "run">>, 501, "ignore"),
             Mount(DST \o <<"root_sub_root", "tmp">>, 502, "ignore"),
             Cmd("dracut", 507, "ignore") >>)
  \o << Cmd("final_checks", 510, "never"),
        Cmd("print_done", 524, "never") >>

\* the paths cleanup() of holy-loop-fedora-ninja-final.py hands to umount -R
CleanupFinal ==
  << DST \o <<"root", "boot", "efi">>,
     DST \o <<"efi">>,
     DST \o <<"boot">>,
     DST \o <<"root">>,
     SRC \o <<"root_top">>,
     SRC \o <<"root_sub_root">>,
     SRC \o <<"root_sub_home">>,
     SRC \o <<"root_sub_var">>,
     SRC \o <<"boot">>,
     SRC \o <<"efi">>,
     SRC,
     DST \o <<"root", "dev", "pts">>,
     DST \o <<"root", "dev">>,
     DST \o <<"root", "proc">>,
     DST \o <<"root", "sys">>,
     DST \o <<"root", "run">>,
     DST \o <<"root", "tmp">> >>

\* main of ninja-mbr4(1).py, lines 290-531
ProgMbr4 ==
  << Cmd("lsblk_tree", 292, "ignore"),
     Cmd("lsblk_mountpoints", 299, CPE),
     Cmd("umount_disk", 301, "ignore"),
     Cmd("cleanup", 302, "never"),
     Cmd("wipefs", 306, "ignore"),
     Cmd("udev_settle", 307, "ignore"),
     Cmd("parse_size", 311, DIE),
     Cmd("parse_size", 312, DIE),
     Step("parted", <<"mklabel", "msdos">>, 0, 320, CPE),
     Step("parted", <<"mkpart", "fat32", "4MiB", "efi_end">>, 1, 321, CPE),
     Step("parted", <<"set", "boot">>, 1, 322, CPE),
     Step("parted", <<"set", "lba">>, 1, 323, CPE),
     Step("parted", <<"mkpart", "ext4", "efi_end", "boot_end">>, 2, 325, CPE),
     Step("parted", <<"mkpart", "btrfs", "boot_end", "root_end">>, 3, 326, CPE),
     Step("parted", <<"mkpart", "ext4", "root_end", "100%">>, 4, 327, CPE),
     Step("parted", <<"print">>, 0, 329, CPE),
     Cmd("udev_settle", 330, "ignore"),
     Step("mkfs", <<"vfat">>, 1, 339, CPE),
     Step("mkfs", <<"ext4">>, 2, 340, CPE),
     Step("mkfs", <<"btrfs">>, 3, 341, CPE),
     Step("mkfs", <<"ext4">>, 4, 342, CPE),
     Cmd("udev_settle", 343, "ignore"),
     Cmd("losetup", 347, CPE),
     Cmd("lsblk_loop", 348, "ignore"),
     Mount(SRC \o <<"efi">>, 359, CPE),
     Mount(SRC \o <<"boot">>, 360, CPE),
     Mount(SRC \o <<"root_top">>, 361, CPE),
     Cmd("btrfs_subvolume_list", 363, CPE),
     Cmd("require_root_subvol", 368, DIE),
     Mount(SRC \o <<"root_sub_root">>, 370, CPE) >>
  \o When(has_home, << Mount(SRC \o <<"root_sub_home">>, 372, CPE) >>)
  \o When(has_var, << Mount(SRC \o <<"root_sub_var">>, 374, CPE) >>)
  \o << Mount(DST \o <<"efi">>, 381, CPE),
        Mount(DST \o <<"boot">>, 382, CPE),
        Mount(DST \o <<"data">>, 383, CPE),
        Mount(DST \o <<"root_top">>, 384, CPE),
        Step("btrfs_subvolume_create", <<"root">>, 0, 388, CPE) >>
  \o When(has_home, << Step("btrfs_subvolume_create", <<"home">>, 0, 390, CPE) >>)
  \o When(has_var, << Step("btrfs_subvolume_create", <<"var">>, 0, 392, CPE) >>)
  \o << Mount(DST \o <<"root_sub_root">>, 395, CPE) >>
  \o When(has_home, << Mount(DST \o <<"root_sub_home">>, 397, CPE) >>)
  \o When(has_var, << Mount(DST \o <<"root_sub_var">>, 399, CPE) >>)
  \o << Step("rsync_progress", <<"root">>, 0, 402, DIE) >>
  \o When(has_home, << Step("rsync_progress", <<"home">>, 0, 404, DIE) >>)
  \o When(has_var, << Step("rsync_progress", <<"var">>, 0, 406, DIE) >>)
  \o << Step("rsync_progress", <<"boot">>, 0, 409, DIE),
        Mount(DST \o <<"root_sub_root", "boot">>, 415, CPE),
        Mount(DST \o <<"root_sub_root", "boot", "efi">>, 416, CPE),
        Cmd("rsync_efi_tree", 421, CPE),
        Cmd("rsync_pftf", 425, CPE),
        Cmd("write_config", 441, "never"),
        Step("blkid", <<"efi_uuid">>, 1, 445, CPE),
        Step("blkid", <<"boot_uuid">>, 2, 446, CPE),
        Step("blkid", <<"root_uuid">>, 3, 447, CPE),
        Step("blkid", <<"data_uuid">>, 4, 448, CPE),
        Cmd("write_fstab", 460, "never"),
        Cmd("write_grub_stub", 463, "never"),
        Cmd("patch_bls_entries", 466, "never") >>
  \o When(~dracut_skipped,
          When(has_var, << Mount(DST \o <<"root_sub_root", "var">>, 484, CPE) >>)
          \o When(has_home, << Mount(DST \o <<"root_sub_root", "home">>, 486, CPE) >>)
          \o << Mount(DST \o <<"root_sub_root", "data">>, 489, CPE),
                Cmd("chmod", 497, "ignore"),
                Cmd("chmod", 498, "ignore"),
                Mount(DST \o <<"root_sub_root", "dev">>, 500, CPE),
                Mount(DST \o <<"root_sub_root", "dev", "pts">>, 501, "ignore"),
                Mount(DST \o <<"root_sub_root", "proc">>, 502, CPE),
                Mount(DST \o <<"root_sub_root", "sys">>, 503, CPE),
                Mount(DST \o <<"root_sub_root", "run">>, 504, "ignore"),
                Mount(DST \o <<"root_sub_root", "tmp">>, 505, "ignore"),
                Cmd("dracut", 508, "ignore") >>)
  \o << Cmd("final_checks", 511, "never"),
        Cmd("print_done", 524, "never") >>

\* the paths cleanup() of ninja-mbr4(1).py hands to umount -R
CleanupMbr4 ==
  << DST \o <<"root_sub_root", "boot", "efi">>,
     DST \o <<"efi">>,
     DST \o <<"boot">>,
     DST \o <<"root_sub_root", "data">>,
     DST \o <<"data">>,
     DST \o <<"root_sub_root", "var">>,
     DST \o <<"root_sub_root", "home">>,
     DST \o <<"root_sub_root", "dev", "pts">>,
     DST \o <<"root_sub_root", "dev">>,
     DST \o <<"root_sub_root", "proc">>,
     DST \o <<"root_sub_root", "sys">>,
     DST \o <<"root_sub_root", "run">>,
     DST \o <<"root_sub_root", "tmp">>,
     DST \o <<"root_sub_root">>,
     DST \o <<"root_top">>,
     DST \o <<"root_sub_home">>,
     DST \o <<"root_sub_var">>,
     DST \o <<"root_sub_root">>,
     SRC \o <<"root_sub_root">>,
     SRC \o <<"root_sub_home">>,
     SRC \o <<"root_sub_var">>,
     SRC \o <<"root_top">>,
     SRC \o <<"boot">>,
     SRC \o <<"efi">> >>

\* the subvolume loop of the hard-coded MBR flasher, lines 81-89
HolySubvol(sub, dir) ==
  << Step("btrfs_subvolume_create", <<sub>>, 0, 82, CPE),
     Mount(DST \o <<dir>>, 85, CPE),
     Mount(SRC \o <<dir>>, 88, CPE),
     Step("rsync_progress", <<sub>>, 0, 89, CPE) >>

\* main of Holy Loop/holy-loop-fedora-ninja.py (archive), lines 51-113
ProgHoly ==
  << Cmd("lsblk_mountpoints", 54, CPE),
     Cmd("umount_disk", 56, "ignore"),
     Cmd("lsblk_mountpoints", 54, CPE),
     Cmd("umount_disk", 56, "ignore"),
     Cmd("wipefs", 59, CPE),
     Step("parted", <<"mklabel", "msdos">>, 0, 60, CPE),
     Step("parted", <<"mkpart", "fat32", "4", "512">>, 1, 61, CPE),
     Step("parted", <<"set", "boot">>, 1, 62, CPE),
     Step("parted", <<"mkpart", "ext4", "512", "2560">>, 2, 63, CPE),
     Step("parted", <<"mkpart", "btrfs", "2560", "1900000">>, 3, 64, CPE),
     Step("parted", <<"mkpart", "ext4", "1900000", "100%">>, 4, 65, CPE),
     Step("mkfs", <<"vfat">>, 1, 68, CPE),
     Step("mkfs", <<"ext4">>, 2, 69, CPE),
     Step("mkfs", <<"btrfs">>, 3, 70, CPE),
     Step("mkfs", <<"ext4">>, 4, 71, CPE),
     Cmd("losetup", 73, CPE),
     Mount(DST \o <<"efi">>, 77, CPE),
     Mount(DST \o <<"boot">>, 77, CPE),
     Mount(DST \o <<"root_top">>, 77, CPE),
     Mount(SRC \o <<"efi">>, 78, CPE),
     Mount(SRC \o <<"boot">>, 78, CPE),
     Mount(SRC \o <<"root_top">>, 78, CPE) >>
  \o HolySubvol("root", "sub_root") \o HolySubvol("home", "sub_home")
  \o HolySubvol("var", "sub_var")
  \o << Step("rsync_progress", <<"boot">>, 0, 91, CPE),
        Cmd("rsync_efi_tree", 94, CPE),
        Cmd("rsync_pftf", 95, CPE),
        Step("blkid", <<"boot_uuid">>, 2, 98, CPE),
        Step("blkid", <<"root_uuid">>, 3, 99, CPE),
        Cmd("write_grub_stub", 103, "never"),
        Cmd("patch_bls_entries", 106, "never"),
        Cmd("write_fstab", 111, "never"),
        Cmd("print_done", 113, "never") >>

RTE == "RuntimeError"

\* one round of the subvolume loop of the 4-partition hard-coded flasher
Holy4Subvol(sub, dir) ==
  << Mount(SRC \o <<dir>>, 162, CPE),
     Step("btrfs_subvolume_create", <<sub>>, 0, 163, CPE),
     Mount(DST \o <<dir>>, 164, CPE),
     Step("rsync_progress", <<sub>>, 0, 165, CPE) >>

\* main of Holy Loop/holy-loop-fedora-ninja-mbr4.py, lines 94-228
ProgHoly4 ==
  << Cmd("check_root", 97, RTE),
     Cmd("check_image", 99, RTE),
     Cmd("check_uefi_dir", 101, RTE),
     Cmd("lsblk_tree", 103, CPE),
     Cmd("wipefs", 108, CPE),
     Step("parted", <<"mklabel", "msdos">>, 0, 109, CPE),
     Step("parted", <<"mkpart", "fat32", "start_mib", "p1_end">>, 1, 116, CPE),
     Step("parted", <<"set", "boot">>, 1, 117, CPE),
     Step("parted", <<"mkpart", "ext4", "p1_end", "p2_end">>, 2, 121, CPE),
     Step("parted", <<"mkpart", "btrfs", "p2_end", "p3_end">>, 3, 126, CPE),
     Step("parted", <<"mkpart", "ext4", "p3_end", "100%">>, 4, 129, CPE),
     Cmd("partprobe", 131, "ignore"),
     Step("mkfs", <<"vfat">>, 1, 136, CPE),
     Step("mkfs", <<"ext4">>, 2, 137, CPE),
     Step("mkfs", <<"btrfs">>, 3, 138, CPE),
     Step("mkfs", <<"ext4">>, 4, 139, CPE),
     Cmd("losetup", 143, CPE),
     Mount(SRC \o <<"efi">>, 150, CPE),
     Mount(SRC \o <<"boot">>, 151, CPE),
     Mount(SRC \o <<"root_top">>, 152, CPE),
     Mount(DST \o <<"efi">>, 155, CPE),
     Mount(DST \o <<"boot">>, 156, CPE),
     Mount(DST \o <<"root_top">>, 157, CPE),
     Mount(DST \o <<"data">>, 158, CPE) >>
  \o Holy4Subvol("root", "root_sub_root") \o Holy4Subvol("home", "root_sub_home")
  \o Holy4Subvol("var", "root_sub_var")
  \o << Step("rsync_progress", <<"boot">>, 0, 168, CPE),
        Cmd("rsync_efi_tree", 173, CPE),
        Cmd("rsync_pftf", 174, CPE),
        Cmd("write_config", 177, "never"),
        Step("blkid", <<"boot_uuid">>, 2, 186, CPE),
        Cmd("write_grub_stub", 194, "never"),
        Step("blkid", <<"root_uuid">>, 3, 198, CPE),
        Step("blkid", <<"efi_uuid">>, 1, 199, CPE),
        Step("blkid", <<"data_uuid">>, 4, 200, CPE),
        Cmd("write_fstab", 211, "never"),
        Mount(DST \o <<"root_sub_root", "var">>, 218, CPE),
        Mount(DST \o <<"root_sub_root", "boot">>, 219, CPE),
        Mount(DST \o <<"root_sub_root", "boot", "efi">>, 220, CPE),
        Mount(DST \o <<"root_sub_root", "data">>, 221, CPE),
        Mount(DST \o <<"root_sub_root", "dev">>, 223, CPE),
        Mount(DST \o <<"root_sub_root", "proc">>, 223, CPE),
        Mount(DST \o <<"root_sub_root", "sys">>, 223, CPE),
        Mount(DST \o <<"root_sub_root", "run">>, 223, CPE),
        Cmd("chmod", 225, CPE),
        Cmd("dracut", 226, CPE),
        Cmd("print_done", 228, "never") >>

\* the paths cleanup() of Holy Loop/holy-loop-fedora-ninja-mbr4.py hands
\* to umount -l
CleanupHoly4 ==
  << DST \o <<"root_sub_root", "boot", "efi">>,
     DST \o <<"root_sub_root", "boot">>,
     DST \o <<"root_sub_root", "var">>,
     DST \o <<"root_sub_root", "dev", "pts">>,
     DST \o <<"root_sub_root", "dev">>,
     DST \o <<"root_sub_root", "proc">>,
     DST \o <<"root_sub_root", "sys">>,
     DST \o <<"root_sub_root", "run">>,
     DST \o <<"root_sub_root", "data">>,
     DST \o <<"root_sub_root">>,
     DST \o <<"root_top">>,
     DST \o <<"data">>,
     DST \o <<"efi">>,
     DST \o <<"boot">>,
     SRC \o <<"root_sub_root">>,
     SRC \o <<"root_sub_home">>,
     SRC \o <<"root_sub_var">>,
     SRC \o <<"root_top">>,
     SRC \o <<"boot">>,
     SRC \o <<"efi">> >>

\* one round of the subvolume loop of the v6 flasher
V6Subvol(sub, dir) ==
  << Mount(SRC \o <<dir>>, 118, CPE),
     Step("btrfs_subvolume_create", <<sub>>, 0, 119, CPE),
     Mount(DST \o <<dir>>, 120, CPE),
     Step("rsync_progress", <<sub>>, 0, 121, CPE) >>

\* main of archive/legacy_scripts/holy-loop-fedora-ninja.py, lines 84-159
ProgV6 ==
  << Cmd("lsblk_tree", 86, CPE),
     Cmd("wipefs", 91, CPE),
     Step("parted", <<"mklabel", "gpt">>, 0, 92, CPE),
     Step("parted", <<"mkpart", "fat32", "4MiB", "1024MiB">>, 1, 93, CPE),
     Step("parted", <<"set", "esp">>, 1, 94, CPE),
     Step("parted", <<"mkpart", "ext4", "1024MiB", "3072MiB">>, 2, 95, CPE),
     Step("parted", <<"mkpart", "btrfs", "3072MiB", "100%">>, 3, 96, CPE),
     Step("mkfs", <<"vfat">>, 1, 100, CPE),
     Step("mkfs", <<"ext4">>, 2, 101, CPE),
     Step("mkfs", <<"btrfs">>, 3, 102, CPE),
     Cmd("losetup", 105, CPE),
     Mount(SRC \o <<"efi">>, 110, CPE),
     Mount(SRC \o <<"boot">>, 111, CPE),
     Mount(SRC \o <<"root_top">>, 112, CPE),
     Mount(DST \o <<"efi">>, 113, CPE),
     Mount(DST \o <<"boot">>, 114, CPE),
     Mount(DST \o <<"root_top">>, 115, CPE) >>
  \o V6Subvol("root", "root_sub_root") \o V6Subvol("home", "root_sub_home")
  \o V6Subvol("var", "root_sub_var")
  \o << Step("rsync_progress", <<"boot">>, 0, 123, CPE),
        Cmd("rsync_efi_tree", 128, CPE),
        Cmd("rsync_pftf", 129, CPE),
        Cmd("write_config", 130, "never"),
        Step("blkid", <<"boot_uuid">>, 2, 134, CPE),
        Cmd("write_grub_stub", 137, "never"),
        Step("blkid", <<"root_uuid">>, 3, 142, CPE),
        Step("blkid", <<"efi_uuid">>, 1, 143, CPE),
        Cmd("write_fstab", 149, "never"),
        Mount(DST \o <<"root_sub_root", "var">>, 152, CPE),
        Mount(DST \o <<"root_sub_root", "boot">>, 153, CPE),
        Mount(DST \o <<"root_sub_root", "boot", "efi">>, 154, CPE),
        Mount(DST \o <<"root_sub_root", "dev">>, 155, CPE),
        Mount(DST \o <<"root_sub_root", "proc">>, 155, CPE),
        Mount(DST \o <<"root_sub_root", "sys">>, 155, CPE),
        Mount(DST \o <<"root_sub_root", "run">>, 155, CPE),
        Cmd("chmod", 156, CPE),
        Cmd("dracut", 158, CPE),
        Cmd("print_done", 159, "never") >>

\* the paths cleanup() of the v6 flasher hands to umount -l
CleanupV6 ==
  << DST \o <<"root_sub_root", "boot", "efi">>,
     DST \o <<"root_sub_root", "boot">>,
     DST \o <<"root_sub_root", "var">>,
     DST \o <<"root_sub_root", "dev", "pts">>,
     DST \o <<"root_sub_root", "dev">>,
     DST \o <<"root_sub_root", "proc">>,
     DST \o <<"root_sub_root", "sys">>,
     DST \o <<"root_sub_root", "run">>,
     DST \o <<"root_sub_root">>,
     DST \o <<"root_top">>,
     DST \o <<"efi">>,
     DST \o <<"boot">>,
     SRC \o <<"root_sub_root">>,
     SRC \o <<"root_sub_home">>,
     SRC \o <<"root_sub_var">>,
     SRC \o <<"root_top">>,
     SRC \o <<"boot">>,
     SRC \o <<"efi">> >>

\* the script's try block
Program ==
  CASE variant = "final" -> ProgFinal
    [] variant = "mbr4" -> ProgMbr4
    [] variant = "holy" -> ProgHoly
    [] variant = "holy4" -> ProgHoly4
    [] variant = "v6" -> ProgV6

\* the paths the script's teardown hands to umount, in order; the finally
\* block of the hard-coded MBR flasher unmounts nothing
CleanupPaths ==
  CASE variant = "final" -> CleanupFinal
    [] variant = "mbr4" -> CleanupMbr4
    [] variant = "holy" -> <<>>
    [] variant = "holy4" -> CleanupHoly4
    [] variant = "v6" -> CleanupV6

\* "if loopdev:" guards the detach (not in the hard-coded MBR flasher)
detach_guarded == [final |-> TRUE, mbr4 |-> TRUE, holy |-> FALSE, holy4 |-> TRUE,
                   v6 |-> TRUE]
\* the teardown ends with udev_settle()
teardown_settles == [final |-> TRUE, mbr4 |-> TRUE, holy |-> FALSE, holy4 |-> FALSE,
                     v6 |-> FALSE]
\* cleanup() sets loopdev to None after the detach
loopdev_reset == [final |-> TRUE, mbr4 |-> TRUE, holy |-> FALSE, holy4 |-> FALSE,
                  v6 |-> FALSE]
\* the teardown unmounts with umount -l, which detaches a mount at once
\* and is never refused because the mount is busy
umount_lazy == [final |-> FALSE, mbr4 |-> FALSE, holy |-> FALSE, holy4 |-> TRUE,
                v6 |-> TRUE]
\* "except Exception" around the try block prints the error and lets the
\* run end as if nothing was raised; SystemExit and KeyboardInterrupt are
\* no subclasses of Exception
swallows_exceptions == [final |-> FALSE, mbr4 |-> FALSE, holy |-> FALSE,
                        holy4 |-> FALSE, v6 |-> TRUE]
\* the exception in flight leaves main when the finally block is done
propagates(e) == e # "none" /\ ~(swallows_exceptions[variant] /\ e \in {CPE, FNF, RTE})
\* teardown commands run with check=True
teardown_check_strict == TRUE

\* the check argument of the umount and losetup -d calls of the teardown
teardown_check == FALSE

----------------------------------------------------------------------------
(* fstab and the BLS entries of the source image *)

FstabLine(uuid, mp, fs) == [uuid |-> uuid, mp |-> mp, fs |-> fs]

\* an fstab with the six lines of the full layout, whatever the image
\* and the command line
fstab_lines_fixed ==
  << FstabLine(ids[3], "/", "btrfs"),
     FstabLine(ids[3], "/home", "btrfs"),
     FstabLine(ids[3], "/var", "btrfs"),
     FstabLine(ids[2], "/boot", "ext4"),
     FstabLine(ids[1], "/boot/efi", "vfat"),
     FstabLine(ids[4], "/data", "ext4") >>

\* fstab_lines of main, with the empty lines dropped as write_file does
fstab_lines ==
  CASE variant = "final" ->
         << FstabLine(ids[3], "/", "btrfs") >>
         \o When(has_home, << FstabLine(ids[3], "/home", "btrfs") >>)
         \o When(has_var, << FstabLine(ids[3], "/var", "btrfs") >>)
         \o << FstabLine(ids[2], "/boot", "ext4"),
               FstabLine(ids[1], "/boot/efi", "vfat") >>
         \o When(args.make_data, << FstabLine(ids[4], "/data", "ext4") >>)
    [] variant = "mbr4" ->
         << FstabLine(ids[3], "/", "btrfs") >>
         \o When(has_home, << FstabLine(ids[3], "/home", "btrfs") >>)
         \o When(has_var, << FstabLine(ids[3], "/var", "btrfs") >>)
         \o << FstabLine(ids[2], "/boot", "ext4"),
               FstabLine(ids[1], "/boot/efi", "vfat"),
               FstabLine(ids[4], "/data", "ext4") >>
    [] variant = "holy" ->
         << FstabLine(ids[3], "/", "btrfs"),
            FstabLine(ids[2], "/boot", "ext4") >>
    [] variant = "holy4" ->
         << FstabLine(ids[3], "/", "btrfs"),
            FstabLine(ids[3], "/home", "btrfs"),
            FstabLine(ids[3], "/var", "btrfs"),
            FstabLine(ids[2], "/boot", "ext4"),
            FstabLine(ids[1], "/boot/efi", "vfat"),
            FstabLine(ids[4], "/data", "ext4") >>
    [] variant = "v6" ->
         << FstabLine(ids[3], "/", "btrfs"),
            FstabLine(ids[3], "/home", "btrfs"),
            FstabLine(ids[3], "/var", "btrfs"),
            FstabLine(ids[2], "/boot", "ext4"),
            FstabLine(ids[1], "/boot/efi", "vfat") >>

\* tokens of kernel command lines
Tok_rootSrc == L_rootUUID \o SrcUuid(3)
Tok_rootDev == L_root \o <<"/", "d", "e", "v", "/", "s", "d", "a", "3">>
Tok_rootLabel == L_root \o <<"L", "A", "B", "E", "L", "=", "f", "-", "1">>
Tok_flagsVar == L_rootflags \o <<"s", "u", "b", "v", "o", "l", "=", "v", "a", "r">>
Tok_flagsOpt == L_rootflags \o <<"n", "o", "a", "t", "i", "m", "e", ",", "s", "u", "b", "v", "o", "l", "=", "r">>
Tok_ro == <<"r", "o">>
Tok_resume == <<"r", "e", "s", "u", "m", "e", "=", "U", "U", "I", "D", "=">> \o SrcUuid(3)
TokenSet == {Tok_rootSrc, Tok_rootDev, Tok_rootLabel, Tok_flagsVar, Tok_flagsOpt,
             L_subvolroot, Tok_ro, Tok_resume}

RECURSIVE JoinSp(_)
JoinSp(toks) ==
  IF toks = <<>> THEN <<>>
  ELSE IF Len(toks) = 1 THEN toks[1]
  ELSE toks[1] \o <<" ">> \o JoinSp(Tail(toks))

TitleLine == <<"t", "i", "t", "l", "e", " ", "F", "4", "3", "\n">>
LinuxLine == <<"l", "i", "n", "u", "x", " ", "/", "v", "m", "l", "i", "n", "u", "z", "\n">>
\* a BLS entry file whose options line carries toks
Entry(toks) == TitleLine \o L_options \o JoinSp(toks) \o <<"\n">> \o LinuxLine

\* loader/entries of the source image's boot partition, as rsync copies it
SrcBlsChoices ==
  { NoDir,
    Dir(<<>>),
    Dir(<< Entry(<<Tok_rootSrc, Tok_ro, Tok_flagsVar>>) >>),
    Dir(<< Entry(<<Tok_rootSrc, Tok_ro>>), Entry(<<Tok_rootDev, L_subvolroot>>) >>) }

----------------------------------------------------------------------------
(* Actions of a run *)

Cur == Program[pc]
InTry == phase = "try" /\ cpos = 0 /\ pc <= Len(Program)
NTd == Len(CleanupPaths)

\* control reaches the finally block with exception e in flight
ToFinally(e) ==
  /\ exc' = e
  /\ phase' = "finally"
  /\ cpos' = 1
  /\ tdlog' = <<>>
  /\ finalCleanup' = "running"

\* an exception leaves the finally block: the process ends
AbortFinally(e) ==
  /\ exc' = e
  /\ phase' = "exited"
  /\ finalCleanup' = "aborted"
  /\ exitcode' = 1
  /\ cpos' = 0

UNCH_bls == UNCHANGED <<patcher, blsOrig, blsOnce, patchRuns>>
UNCH_run == UNCHANGED <<variant, args, fault, parts, orch>>

\* mount directories of the optional subvolumes
SubvolDirs == [home |-> {"root_sub_home", "sub_home"},
               var |-> {"root_sub_var", "sub_var"}]

\* the hard-coded flashers read no subvolume list: whether the image has
\* subvolume X shows when mount -o subvol=X is run on the loop device,
\* which succeeds only if the image has it
Probes(step, X) ==
  /\ variant \in {"holy", "holy4", "v6"}
  /\ step.op = "mount"
  /\ \E d \in SubvolDirs[X] : step.a = SRC \o <<d>>

\* the step runs a binary the host does not have: subprocess.run raises
\* FileNotFoundError whatever its check argument
NoBinary(step) == fault = "no_udevadm" /\ step.op = "udev_settle"

\* the step cannot succeed on this host: the binary is missing, the
\* mandatory partitions do not fit on the disk, there is no image to attach
Blocked(step) ==
  \/ NoBinary(step)
  \/ fault = "disk_small" /\ step.op = "parted" /\ step.n = 3
  \/ fault = "no_image" /\ step.op = "losetup"

\* what main checks before it enters its try block
preflight_checks ==
  [final |-> {"no_tool", "no_image", "no_disk", "no_firmware"},
   mbr4 |-> {"no_tool", "no_udevadm", "no_image", "no_disk", "no_firmware"},
   holy |-> {}, holy4 |-> {}, v6 |-> {}]

\* main up to its try block: need() for each listed tool and the three
\* path checks die() before anything was touched
Preflight ==
  /\ phase = "preflight"
  /\ IF fault \in preflight_checks[variant]
     THEN phase' = "refused" /\ exc' = DIE /\ exitcode' = 1
     ELSE phase' = "try" /\ UNCHANGED <<exc, exitcode>>
  /\ UNCH_run /\ UNCH_bls
  /\ UNCHANGED <<pc, cpos, finalCleanup, intInFinally, has_home, has_var,
                 loopdev, attached, attaches, detaches, mtab, acquired,
                 unmounted, tdlog, tdfail, partUuid, ids, efi, bls, fstab, last>>

\* the current step of the try block runs and succeeds
StepOk ==
  /\ InTry
  /\ ~Blocked(Cur)
  /\ last' = "ok"
  /\ UNCH_run /\ UNCH_bls
  /\ UNCHANGED <<phase, exc, finalCleanup, intInFinally, detaches, unmounted,
                 tdfail, exitcode>>
  /\ IF Cur.op = "cleanup"
     THEN cpos' = 1 /\ tdlog' = <<>> /\ pc' = pc
     ELSE pc' = pc + 1 /\ UNCHANGED <<cpos, tdlog>>
  /\ IF Cur.op = "mount"
     THEN mtab' = Append(mtab, Cur.a) /\ acquired' = Append(acquired, Cur.a)
     ELSE UNCHANGED <<mtab, acquired>>
  /\ IF Cur.op = "mkfs"
     THEN partUuid' = [partUuid EXCEPT ![Cur.n] = FreshUuid(Cur.n)]
     ELSE UNCHANGED partUuid
  /\ IF Cur.op = "losetup"
     THEN loopdev' = "loop0" /\ attached' = TRUE /\ attaches' = attaches + 1
     ELSE UNCHANGED <<loopdev, attached, attaches>>
  /\ CASE Cur.op = "btrfs_subvolume_list" ->
            has_home' \in BOOLEAN /\ has_var' \in BOOLEAN
       [] Probes(Cur, "home") -> has_home' = TRUE /\ UNCHANGED has_var
       [] Probes(Cur, "var") -> has_var' = TRUE /\ UNCHANGED has_home
       [] OTHER -> UNCHANGED <<has_home, has_var>>
  /\ IF Cur.op = "blkid"
     THEN ids' = [ids EXCEPT ![Cur.n] = blkid_uuid(Cur.n)]
     ELSE UNCHANGED ids
  /\ IF Cur.op = "write_fstab" THEN fstab' = fstab_lines ELSE UNCHANGED fstab
  /\ CASE Cur.op = "rsync_progress" /\ Cur.a = <<"boot">> -> bls' \in SrcBlsChoices
       [] Cur.op = "mkfs" /\ Cur.n = 2 -> bls' = NoDir
       [] Cur.op = "patch_bls_entries" ->
            bls' = IF variant = "holy" THEN patch_bls_entries_simple(bls, ids[3])
                   ELSE patch_bls_entries(bls, ids[3])
       [] OTHER -> UNCHANGED bls
  /\ CASE Cur.op = "mkfs" /\ Cur.n = 1 -> efi' = EmptyTree
       [] Cur.op = "rsync_efi_tree" ->
            \E g \in BOOLEAN :
              efi' = rsync_tree(SrcEfiTree(g), efi, InEfiDir, vfat_delete[variant])
       [] Cur.op = "rsync_pftf" ->
            \E g \in BOOLEAN :
              efi' = rsync_tree(FwTree(g), efi, EfiFiles, vfat_delete[variant])
       [] Cur.op = "write_config" -> efi' = [efi EXCEPT !["config.txt"] = File("generated")]
       [] Cur.op = "write_grub_stub" -> efi' = write_grub_stub(efi, ids[2])
       [] OTHER -> UNCHANGED efi

\* the step is one of the copies: a subvolume clone, the /boot clone or
\* one of the two EFI merges
IsCopy(step) == step.op \in {"rsync_progress", "rsync_efi_tree", "rsync_pftf"}

\* a runner that lets a copy's exit status pass like that of a command run
\* with check=False
failure_ignored_copies(step) == step.err = "ignore" \/ IsCopy(step)

\* a runner that lets a failed mkfs pass
failure_ignored_mkfs(step) == step.err = "ignore" \/ step.op = "mkfs"

\* sh(cmd, check=False): a non-zero exit status raises nothing
failure_ignored(step) == step.err = "ignore"

\* what a failing step raises: CalledProcessError from sh(check=True),
\* SystemExit from die(), which printed its message first
raised(step) == step.err

\* the current step fails: a command exits non-zero, or die() is called
StepFail ==
  /\ InTry
  /\ Cur.err # "never"
  /\ UNCH_run /\ UNCH_bls
  /\ UNCHANGED <<intInFinally, loopdev, attached, attaches,
                 detaches, mtab, acquired, unmounted, tdfail, partUuid, ids,
                 efi, bls, fstab, exitcode>>
  /\ CASE Probes(Cur, "home") -> has_home' \in BOOLEAN /\ UNCHANGED has_var
       [] Probes(Cur, "var") -> has_var' \in BOOLEAN /\ UNCHANGED has_home
       [] OTHER -> UNCHANGED <<has_home, has_var>>
  /\ IF failure_ignored(Cur) /\ ~NoBinary(Cur)
     THEN /\ pc' = pc + 1 /\ last' = "ignored"
          /\ UNCHANGED <<phase, exc, cpos, tdlog, finalCleanup>>
     ELSE /\ ToFinally(IF NoBinary(Cur) THEN FNF ELSE raised(Cur))
          /\ pc' = pc /\ last' = "failed"

\* the try block ran to its end
EnterFinally ==
  /\ phase = "try" /\ cpos = 0 /\ pc = Len(Program) + 1
  /\ ToFinally("none")
  /\ UNCH_run /\ UNCH_bls /\ UNCHANGED last
  /\ UNCHANGED <<pc, intInFinally, has_home, has_var, loopdev, attached,
                 attaches, detaches, mtab, acquired, unmounted, tdfail,
                 partUuid, ids, efi, bls, fstab, exitcode>>

\* SIGINT: KeyboardInterrupt is raised wherever the script is
Interrupt ==
  /\ phase \in {"try", "finally"}
  /\ UNCH_run /\ UNCH_bls /\ UNCHANGED last
  /\ UNCHANGED <<pc, has_home, has_var, loopdev, attached, attaches, detaches,
                 mtab, acquired, unmounted, tdfail, partUuid, ids, efi, bls, fstab>>
  /\ IF phase = "try"
     THEN ToFinally("KeyboardInterrupt") /\ UNCHANGED <<intInFinally, exitcode>>
     ELSE AbortFinally("KeyboardInterrupt") /\ intInFinally' = TRUE /\ UNCHANGED tdlog

----------------------------------------------------------------------------
(* cleanup(): one umount per listed path, the loop detach, the settle *)

DetachCmd == <<"losetup", "-d">>
SettleCmd == <<"udevadm", "settle">>

IsMounted(p) == \E i \in 1..Len(mtab) : mtab[i] = p
NotUnder(p) == LET keep(t) == ~Under(t, p) IN SelectSeq(mtab, keep)
AllUnder(p) == LET gone(t) == Under(t, p) IN SelectSeq(mtab, gone)
Reverse(q) == [i \in 1..Len(q) |-> q[Len(q) + 1 - i]]

\* an exception leaves cleanup(): to the finally block when cleanup() was
\* called inside the try block, out of the process otherwise
RaiseInTeardown(e) ==
  IF phase = "try"
  THEN ToFinally(e) /\ UNCHANGED exitcode
  ELSE AbortFinally(e) /\ UNCHANGED tdlog

\* sh(cmd, check=False) returned: cleanup() goes on with its next item
TeardownGoesOn ==
  /\ cpos' = cpos + 1
  /\ UNCHANGED <<phase, exc, finalCleanup, exitcode>>

UNCH_td == UNCHANGED <<pc, intInFinally, has_home, has_var, attaches, acquired,
                       partUuid, ids, efi, bls, fstab, last>>

\* umount(p) on a mounted path: umount -R removes p and all mounts below it
TdUmount ==
  /\ phase \in {"try", "finally"} /\ cpos \in 1..NTd
  /\ IsMounted(CleanupPaths[cpos])
  /\ mtab' = NotUnder(CleanupPaths[cpos])
  /\ unmounted' = unmounted \o Reverse(AllUnder(CleanupPaths[cpos]))
  /\ tdlog' = Append(tdlog, CleanupPaths[cpos])
  /\ TeardownGoesOn
  /\ UNCH_run /\ UNCH_bls /\ UNCH_td
  /\ UNCHANGED <<loopdev, attached, detaches, tdfail>>

\* umount(p) exits non-zero; busy tells whether p is mounted and busy, or
\* not mounted at all
UmountFails(busy) ==
  /\ phase \in {"try", "finally"} /\ cpos \in 1..NTd
  /\ IsMounted(CleanupPaths[cpos]) = busy
  /\ busy => (tdfail < MaxBusy /\ ~umount_lazy[variant])
  /\ tdfail' = IF busy THEN tdfail + 1 ELSE tdfail
  /\ IF teardown_check
     THEN RaiseInTeardown(CPE) /\ (phase = "try" \/ tdlog' = tdlog)
     ELSE TeardownGoesOn /\ tdlog' = Append(tdlog, CleanupPaths[cpos])
  /\ UNCH_run /\ UNCH_bls /\ UNCH_td
  /\ UNCHANGED <<loopdev, attached, detaches, mtab, unmounted>>

\* umount(p) of a path that is not mounted
TdUmountNotMounted == UmountFails(FALSE)

\* umount(p) of a mounted path that is busy
TdUmountBusy == UmountFails(TRUE)

\* "if loopdev:" is false: no detach is issued
TdDetachSkip ==
  /\ phase \in {"try", "finally"} /\ cpos = NTd + 1
  /\ detach_guarded[variant] /\ loopdev = "None"
  /\ TeardownGoesOn
  /\ UNCH_run /\ UNCH_bls /\ UNCH_td
  /\ UNCHANGED <<loopdev, attached, detaches, mtab, unmounted, tdlog, tdfail>>

\* losetup -d loopdev succeeds
TdDetachOk ==
  /\ phase \in {"try", "finally"} /\ cpos = NTd + 1
  /\ loopdev # "None" /\ attached
  /\ attached' = FALSE
  /\ detaches' = detaches + 1
  /\ loopdev' = IF loopdev_reset[variant] THEN "None" ELSE loopdev
  /\ tdlog' = Append(tdlog, DetachCmd)
  /\ TeardownGoesOn
  /\ UNCH_run /\ UNCH_bls /\ UNCH_td
  /\ UNCHANGED <<mtab, unmounted, tdfail>>

\* losetup -d exits non-zero; busy tells whether it was handed a device
\* that is busy, or no device at all (loopdev is None)
DetachFails(busy) ==
  /\ phase \in {"try", "finally"} /\ cpos = NTd + 1
  /\ IF busy THEN loopdev # "None" /\ attached /\ tdfail < MaxBusy
             ELSE ~detach_guarded[variant] /\ loopdev = "None"
  /\ detaches' = detaches + 1
  /\ tdfail' = IF busy THEN tdfail + 1 ELSE tdfail
  /\ IF teardown_check
     THEN RaiseInTeardown(CPE) /\ (phase = "try" \/ tdlog' = tdlog) /\ UNCHANGED loopdev
     ELSE /\ TeardownGoesOn
          /\ tdlog' = Append(tdlog, DetachCmd)
          /\ loopdev' = IF loopdev_reset[variant] THEN "None" ELSE loopdev
  /\ UNCH_run /\ UNCH_bls
  /\ UNCHANGED <<intInFinally, has_home, has_var, attaches, acquired, partUuid,
                 ids, efi, bls, fstab, attached, mtab, unmounted, last>>
  /\ pc' = pc

\* losetup -d None
TdDetachNoDevice == DetachFails(FALSE)

\* losetup -d of a busy device
TdDetachBusy == DetachFails(TRUE)

\* udev_settle() ends cleanup(); cleanup() returns into the try block, or
\* the finally block ends and the process exits
TdFinish ==
  /\ phase \in {"try", "finally"} /\ cpos = NTd + 2
  /\ ~(teardown_settles[variant] /\ fault = "no_udevadm")
  /\ tdlog' = IF teardown_settles[variant] THEN Append(tdlog, SettleCmd) ELSE tdlog
  /\ cpos' = 0
  /\ IF phase = "try"
     THEN pc' = pc + 1 /\ UNCHANGED <<phase, finalCleanup, exitcode>>
     ELSE /\ phase' = "exited"
          /\ finalCleanup' = "completed"
          /\ exitcode' = IF propagates(exc) THEN 1 ELSE 0
          /\ pc' = pc
  /\ UNCH_run /\ UNCH_bls
  /\ UNCHANGED <<exc, intInFinally, has_home, has_var, loopdev, attached,
                 attaches, detaches, mtab, acquired, unmounted, tdfail,
                 partUuid, ids, efi, bls, fstab, last>>

\* udev_settle() of cleanup() when there is no udevadm: subprocess.run
\* raises FileNotFoundError, which check=False does not catch
TdSettleMissing ==
  /\ phase \in {"try", "finally"} /\ cpos = NTd + 2
  /\ teardown_settles[variant] /\ fault = "no_udevadm"
  /\ RaiseInTeardown(FNF) /\ (phase = "try" \/ tdlog' = tdlog)
  /\ pc' = pc
  /\ UNCH_run /\ UNCH_bls
  /\ UNCHANGED <<intInFinally, has_home, has_var, loopdev, attached,
                 attaches, detaches, mtab, acquired, unmounted, tdfail,
                 partUuid, ids, efi, bls, fstab, last>>

----------------------------------------------------------------------------
(* Specification of a run *)

\* what the target disk holds before the run
StaleTree ==
  [f \in EfiFiles |->
     IF f = GrubCfg THEN [kind |-> "stale", search |-> StaleUuid(2)] ELSE File("stale")]
StaleBls == Dir(<< Entry(<<L_rootUUID \o StaleUuid(3), Tok_ro>>) >>)

ArgsOf(v) ==
  CASE v = "final" -> [scheme : {"gpt", "mbr"}, make_data : BOOLEAN, no_dracut : BOOLEAN]
    [] v = "mbr4" -> [scheme : {"mbr"}, make_data : {TRUE}, no_dracut : BOOLEAN]
    [] v = "holy" -> [scheme : {"mbr"}, make_data : {TRUE}, no_dracut : {TRUE}]
    [] v = "holy4" -> [scheme : {"mbr"}, make_data : {TRUE}, no_dracut : {FALSE}]
    [] v = "v6" -> [scheme : {"gpt"}, make_data : {FALSE}, no_dracut : {FALSE}]

\* the hosts a script may be started on: a sound one, one without a tool
\* of the need() list, without udevadm, without the image, the disk or the
\* firmware directory, or with a disk too small for the partitions
FaultsOf(v) ==
  CASE v = "holy" -> {"none", "no_image", "disk_small"}
    [] OTHER -> {"none", "no_tool", "no_udevadm", "no_image", "no_disk",
                 "no_firmware", "disk_small"}

\* the start of a run of one of the scripts V on a host with a fault of Fs
InitOf(V, Fs) ==
  /\ variant \in V
  /\ args \in ArgsOf(variant)
  /\ fault \in FaultsOf(variant) \cap Fs
  /\ last = "none"
  /\ phase = "preflight"
  /\ pc = 1
  /\ exc = "none"
  /\ cpos = 0
  /\ finalCleanup = "notrun"
  /\ intInFinally = FALSE
  /\ has_home = FALSE
  /\ has_var = FALSE
  /\ loopdev = "None"
  /\ attached = FALSE
  /\ attaches = 0
  /\ detaches = 0
  /\ mtab = <<>>
  /\ acquired = <<>>
  /\ unmounted = <<>>
  /\ tdlog = <<>>
  /\ tdfail = 0
  /\ partUuid = [n \in 1..4 |-> StaleUuid(n)]
  /\ ids = [n \in 1..4 |-> <<>>]
  /\ efi = StaleTree
  /\ bls = StaleBls
  /\ fstab = <<>>
  /\ exitcode = -1
  /\ patcher = "none"
  /\ blsOrig = NoDir
  /\ blsOnce = NoDir
  /\ patchRuns = 0
  /\ parts = <<>>
  /\ orch = NotStarted

Init ==
  InitOf({"final", "mbr4", "holy"},
         {"none", "no_tool", "no_udevadm", "no_image", "no_disk", "no_firmware",
          "disk_small"})

\* a run on a sound host
InitSound == InitOf({"final", "mbr4", "holy"}, {"none"})

Next ==
  \/ Preflight
  \/ StepOk
  \/ StepFail
  \/ EnterFinally
  \/ Interrupt
  \/ TdUmount
  \/ TdUmountNotMounted
  \/ TdDetachSkip
  \/ TdDetachOk
  \/ TdDetachNoDevice
  \/ TdFinish
  \/ TdSettleMissing

\* a run of the 4-partition hard-coded flasher on a sound host
InitHoly4 == InitOf({"holy4"}, {"none"})

NextHoly4 ==
  \/ Preflight
  \/ StepOk
  \/ StepFail
  \/ EnterFinally
  \/ Interrupt
  \/ TdUmount
  \/ TdUmountNotMounted
  \/ TdDetachSkip
  \/ TdDetachOk
  \/ TdFinish

SpecHoly4 == InitHoly4 /\ [][NextHoly4]_vars

\* a run of the v6 flasher on a sound host; its steps and its teardown are
\* those of NextHoly4
InitV6 == InitOf({"v6"}, {"none"})

SpecV6 == InitV6 /\ [][NextHoly4]_vars

\* the runs on a sound host of three flashers that write the GRUB stub
InitStub == InitOf({"mbr4", "holy4", "v6"}, {"none"})

SpecStub == InitStub /\ [][NextHoly4]_vars

\* a run, the signals it may receive included; every unmount of a mounted
\* path and every detach of an attached device succeeds
Spec == Init /\ [][Next]_vars

NextBusy ==
  \/ Preflight
  \/ StepOk
  \/ StepFail
  \/ EnterFinally
  \/ TdUmount
  \/ TdUmountNotMounted
  \/ TdUmountBusy
  \/ TdDetachSkip
  \/ TdDetachOk
  \/ TdDetachNoDevice
  \/ TdDetachBusy
  \/ TdFinish

\* a run without signals in which up to MaxBusy teardown commands meet a
\* busy mount or loop device
SpecBusy == InitSound /\ [][NextBusy]_vars

----------------------------------------------------------------------------
(* Specification of the BLS rewrite alone: patch_bls_entries is run        *)
(* MaxPatchRuns times on an entries directory holding one generated entry  *)

TokenSeqs == UNION {[1..n -> TokenSet] : n \in 0..MaxTokens}

InitBLS ==
  /\ patcher \in {"full", "simple"}
  /\ \E toks \in TokenSeqs : bls = Dir(<< Entry(toks) >>)
  /\ blsOrig = bls
  /\ blsOnce = NoDir
  /\ patchRuns = 0
  /\ variant = "final"
  /\ args = [scheme |-> "gpt", make_data |-> FALSE, no_dracut |-> TRUE]
  /\ phase = "rewrite"
  /\ pc = 1
  /\ exc = "none"
  /\ cpos = 0
  /\ finalCleanup = "notrun"
  /\ intInFinally = FALSE
  /\ has_home = FALSE
  /\ has_var = FALSE
  /\ loopdev = "None"
  /\ attached = FALSE
  /\ attaches = 0
  /\ detaches = 0
  /\ mtab = <<>>
  /\ acquired = <<>>
  /\ unmounted = <<>>
  /\ tdlog = <<>>
  /\ tdfail = 0
  /\ partUuid = [n \in 1..4 |-> FreshUuid(n)]
  /\ ids = [n \in 1..4 |-> FreshUuid(n)]
  /\ efi = EmptyTree
  /\ fstab = <<>>
  /\ exitcode = -1
  /\ fault = "none"
  /\ last = "none"
  /\ parts = <<>>
  /\ orch = NotStarted

\* one call of patch_bls_entries(bls_dir, root_uuid)
RunPatch ==
  /\ phase = "rewrite"
  /\ patchRuns < MaxPatchRuns
  /\ bls' = IF patcher = "simple" THEN patch_bls_entries_simple(bls, ids[3])
            ELSE patch_bls_entries(bls, ids[3])
  /\ blsOnce' = IF patchRuns = 0 THEN bls' ELSE blsOnce
  /\ patchRuns' = patchRuns + 1
  /\ UNCHANGED <<variant, args, phase, pc, exc, cpos, finalCleanup, intInFinally,
                 has_home, has_var, loopdev, attached, attaches, detaches, mtab,
                 acquired, unmounted, tdlog, tdfail, partUuid, ids, efi, fstab,
                 exitcode, patcher, blsOrig, fault, last, parts, orch>>

NextBLS == RunPatch

SpecBLS == InitBLS /\ [][NextBLS]_vars

----------------------------------------------------------------------------
(* The partition layout alone: the size options and the mkpart commands *)

\* values of --efi-size: the default, the alignment offset, a GiB size, a
\* spaced lower-case one, one without a unit
EfiSizes ==
  { <<"1", "0", "2", "4", "M", "i", "B">>,
    <<"4", "M", "i", "B">>,
    <<"1", "G", "i", "B">>,
    <<"5", "1", "2", " ", "m", "i", "b">>,
    <<"5", "1", "2">> }

\* values of --boot-size: the default, zero, a GiB size, one without a number
BootSizes ==
  { <<"2", "0", "4", "8", "M", "i", "B">>,
    <<"0", "M", "i", "B">>,
    <<"2", "G", "i", "B">>,
    <<"G", "i", "B">> }

\* values of --mbr-root-end / --root-end: the default, one that fits a small
\* disk, a percentage, one below the default end of /boot
RootEnds ==
  { <<"1", "8", "0", "0", "G", "i", "B">>,
    <<"2", "5", "G", "i", "B">>,
    <<"5", "0", "%">>,
    <<"2", "G", "i", "B">> }

\* the command lines of script v, with their size options
LayoutArgsOf(v) ==
  CASE v = "final" ->
         [scheme : {"gpt", "mbr"}, make_data : BOOLEAN, no_dracut : {FALSE},
          efi_size : EfiSizes, boot_size : BootSizes, root_end : RootEnds]
    [] v = "mbr4" ->
         [scheme : {"mbr"}, make_data : {TRUE}, no_dracut : {FALSE},
          efi_size : EfiSizes, boot_size : BootSizes, root_end : RootEnds]
    [] v = "holy4" ->
         [scheme : {"mbr"}, make_data : {TRUE}, no_dracut : {FALSE}]

InitLayout ==
  /\ variant \in {"final", "mbr4", "holy4"}
  /\ args \in LayoutArgsOf(variant)
  /\ fault \in {"none", "disk_small"}
  /\ phase = IF variant = "holy4" THEN "parted" ELSE "sizes"
  /\ parts = <<>>
  /\ orch = NotStarted
  /\ last = "none"
  /\ pc = 1
  /\ exc = "none"
  /\ cpos = 0
  /\ finalCleanup = "notrun"
  /\ intInFinally = FALSE
  /\ has_home = FALSE
  /\ has_var = FALSE
  /\ loopdev = "None"
  /\ attached = FALSE
  /\ attaches = 0
  /\ detaches = 0
  /\ mtab = <<>>
  /\ acquired = <<>>
  /\ unmounted = <<>>
  /\ tdlog = <<>>
  /\ tdfail = 0
  /\ partUuid = [n \in 1..4 |-> StaleUuid(n)]
  /\ ids = [n \in 1..4 |-> <<>>]
  /\ efi = StaleTree
  /\ bls = StaleBls
  /\ fstab = <<>>
  /\ exitcode = -1
  /\ patcher = "none"
  /\ blsOrig = NoDir
  /\ blsOnce = NoDir
  /\ patchRuns = 0

UNCH_layout ==
  UNCHANGED <<variant, args, fault, last, cpos, finalCleanup, intInFinally,
              has_home, has_var, loopdev, attached, attaches, detaches, mtab,
              acquired, unmounted, tdlog, tdfail, partUuid, ids, efi, bls,
              fstab, exitcode, patcher, blsOrig, blsOnce, patchRuns, orch>>

\* both parse_size_to_mib calls return
SizesParsed ==
  /\ phase = "sizes"
  /\ parse_size_to_mib(args.efi_size) >= 0
  /\ parse_size_to_mib(args.boot_size) >= 0
  /\ phase' = "parted"
  /\ UNCHANGED <<pc, exc, parts>>
  /\ UNCH_layout

\* one of the parse_size_to_mib calls dies
SizesRejected ==
  /\ phase = "sizes"
  /\ \/ parse_size_to_mib(args.efi_size) < 0
     \/ parse_size_to_mib(args.boot_size) < 0
  /\ phase' = "stopped"
  /\ exc' = DIE
  /\ UNCHANGED <<pc, parts>>
  /\ UNCH_layout

\* the next mkpart command, as parted reads it
NextPart == Resolved(mkparts(variant, args)[pc], DiskMiB(fault))

\* sh(parted ... mkpart ...) returns
MkpartOk ==
  /\ phase = "parted"
  /\ pc <= Len(mkparts(variant, args))
  /\ parted_accepts(NextPart, DiskMiB(fault))
  /\ parts' = Append(parts, NextPart)
  /\ pc' = pc + 1
  /\ UNCHANGED <<phase, exc>>
  /\ UNCH_layout

\* parted refuses the command and sh raises CalledProcessError
MkpartFail ==
  /\ phase = "parted"
  /\ pc <= Len(mkparts(variant, args))
  /\ ~parted_accepts(NextPart, DiskMiB(fault))
  /\ parts' = Append(parts, NextPart)
  /\ phase' = "stopped"
  /\ exc' = CPE
  /\ UNCHANGED pc
  /\ UNCH_layout

NextLayout ==
  \/ SizesParsed
  \/ SizesRejected
  \/ MkpartOk
  \/ MkpartFail

SpecLayout == InitLayout /\ [][NextLayout]_vars

----------------------------------------------------------------------------
(* Reading the artifacts a run leaves behind *)

\* the lines of every entry file of an entries directory
Lines(dir) ==
  UNION { {splitlines(dir.files[k])[i] : i \in 1..Len(splitlines(dir.files[k]))} :
          k \in 1..Len(dir.files) }

\* the kernel-argument lines of the entry files
OptionsLines(dir) == {l \in Lines(dir) : startswith(l, L_options)}

\* positions where a kernel argument of an options line starts
ArgStarts(l) ==
  {i \in 2..Len(l) : l[i] \notin SpaceChars /\ l[i - 1] \in SpaceChars}

\* the whitespace-delimited token that starts at l[i]
TokenAt(l, i) == SubSeq(l, i, i + RunLen(l, i, NonSpace) - 1)

\* the kernel arguments of an options line from position i on, in order
RECURSIVE ArgsFrom(_, _)
ArgsFrom(l, i) ==
  LET starts == {j \in ArgStarts(l) : j >= i}
  IN  IF starts = {} THEN <<>>
      ELSE LET j == CHOOSE x \in starts : \A y \in starts : x <= y
           IN  << TokenAt(l, j) >> \o ArgsFrom(l, j + 1)

\* the kernel arguments of an options line that are neither a root= nor
\* a rootflags= token, in order
OtherArgs(l) ==
  LET other(t) == ~startswith(t, L_root) /\ ~startswith(t, L_rootflags)
  IN  SelectSeq(ArgsFrom(l, 2), other)

\* the step writes to the target disk
Destructive(step) ==
  \/ step.op \in {"wipefs", "mkfs"}
  \/ step.op = "parted" /\ step.a[1] \in {"mklabel", "mkpart", "set"}

\* the steps of the try block that were run and left behind
Passed == 1..(pc - 1)

\* the image has the optional subvolume X
HasSubvol(X) == IF X = "home" THEN has_home ELSE has_var

\* the step mounts, creates or copies the optional subvolume X
StepAbout(step, X) ==
  \/ /\ step.op = "mount"
     /\ \E d \in SubvolDirs[X] : step.a \in {SRC \o <<d>>, DST \o <<d>>}
  \/ step.op \in {"btrfs_subvolume_create", "rsync_progress"} /\ step.a = <<X>>

\* what the run made for the optional subvolume X: its source mount, its
\* destination subvolume, its destination mount, its copy, its fstab line
MadeFor(X) ==
  LET mounts == {acquired[i] : i \in 1..Len(acquired)}
      passed(op) == \E k \in Passed : Program[k].op = op /\ Program[k].a = <<X>>
  IN  [src_mount |-> \E d \in SubvolDirs[X] : SRC \o <<d>> \in mounts,
       subvolume |-> passed("btrfs_subvolume_create"),
       dst_mount |-> \E d \in SubvolDirs[X] : DST \o <<d>> \in mounts,
       copy |-> passed("rsync_progress"),
       fstab_line |-> \E i \in 1..Len(fstab) : fstab[i].mp = (IF X = "home" THEN "/home" ELSE "/var")]

\* the partitions the run had parted make
PartsMade ==
  {Program[k].n : k \in {j \in Passed : /\ Program[j].op = "parted"
                                         /\ Program[j].a[1] = "mkpart"}}

\* the partitions the run formatted
PartsFormatted == {Program[k].n : k \in {j \in Passed : Program[j].op = "mkfs"}}

\* the fstab lines for mount point mp with filesystem type fs
FstabCount(mp, fs) ==
  Cardinality({i \in 1..Len(fstab) : fstab[i].mp = mp /\ fstab[i].fs = fs})

\* 1 for TRUE, 0 for FALSE
Num(b) == IF b THEN 1 ELSE 0

\* the process ended and reported success
Succeeded == phase = "exited" /\ exitcode = 0

\* the finally block's teardown ran from its first to its last command
TornDown == phase = "exited" /\ finalCleanup = "completed"

\* the commands a complete teardown issues, in order
ExpectedTeardown ==
  CleanupPaths
    \o When(attaches > 0 \/ ~detach_guarded[variant], << DetachCmd >>)
    \o When(teardown_settles[variant], << SettleCmd >>)

----------------------------------------------------------------------------
(* Properties *)

\* C1: after every successful run, EFI/fedora/grub.cfg on the destination
\* EFI partition exists and its search line carries the UUID that this
\* run's mkfs gave the destination boot partition (p2), never the boot
\* UUID of the source image.
C1_StubCarriesDestBootUuid ==
  Succeeded =>
    /\ efi[GrubCfg].kind # "absent"
    /\ efi[GrubCfg].search = partUuid[2]
    /\ partUuid[2] = FreshUuid(2)

\* C2: after every successful run, fstab is written, every UUID= of it is
\* the UUID this run gave the partition behind its mount point (/, /home,
\* /var -> p3; /boot -> p2; /boot/efi -> p1; /data -> p4), and every
\* root=UUID= token of every options line is root=UUID=<UUID of p3>.
C2_DestUuidsEverywhere ==
  Succeeded =>
    /\ fstab # <<>>
    /\ \A i \in 1..Len(fstab) :
         /\ fstab[i].uuid = partUuid[PartOf(fstab[i].mp)]
         /\ fstab[i].uuid = FreshUuid(PartOf(fstab[i].mp))
    /\ \A l \in OptionsLines(bls) :
         \A i \in ArgStarts(l) :
           HasPrefixAt(l, i, L_rootUUID) =>
             TokenAt(l, i) = L_rootUUID \o FreshUuid(3)

\* a successful run with a data partition, a /home subvolume and two
\* entries that came with the image's own root= arguments
C2_Witness ==
  /\ Succeeded
  /\ variant = "final" /\ args.make_data /\ has_home
  /\ Len(fstab) = 5
  /\ Len(bls.files) = 2
  /\ \E l \in OptionsLines(bls) :
       \E i \in ArgStarts(l) : TokenAt(l, i) = L_rootUUID \o FreshUuid(3)

\* C3: when the argparse flasher exits after its teardown ran to the end,
\* none of the mounts the run made is still mounted and the loop device
\* is detached.
C3_NothingLeftMounted ==
  (variant = "final" /\ TornDown) => (mtab = <<>> /\ ~attached)

\* C4: when a mount of the mount plan (lines 351-403) fails, the run
\* aborts with no clone step run, the teardown runs to its end without
\* raising, it unmounts exactly the mounts made so far, and the loop
\* device is detached.
C4_MountFailureTeardown ==
  ( /\ variant = "final" /\ phase = "exited" /\ ~intInFinally
    /\ exc = CPE /\ pc <= Len(Program)
    /\ Cur.op = "mount" /\ Cur.ln \in 351..403 )
  => /\ \A k \in 1..(pc - 1) : Program[k].op # "rsync_progress"
     /\ finalCleanup = "completed"
     /\ mtab = <<>>
     /\ {unmounted[i] : i \in 1..Len(unmounted)} = {acquired[i] : i \in 1..Len(acquired)}
     /\ Len(unmounted) = Len(acquired)
     /\ ~attached

\* C5: once the try block is entered, the process does not end before the
\* finally block's cleanup() ran to completion, whatever ended the try
\* block (normal end, failed command, die(), interrupt) and wherever an
\* interrupt arrives.
C5_CleanupAlwaysCompletes ==
  phase = "exited" => finalCleanup = "completed"

\* C6: in every run whose teardown ran to the end, losetup -d was issued
\* exactly once if the run attached the image to a loop device, and not
\* at all if it never did.
C6_DetachOncePerAttach ==
  TornDown => detaches = attaches

\* C7: the teardown of the argparse flashers removes the run's mounts in
\* the strict reverse of the order they were made, issues the loop detach
\* after the last unmount attempt and the settle after that.
C7_StrictReverseOrder ==
  (variant \in {"final", "mbr4"} /\ TornDown) =>
    /\ unmounted = Reverse(acquired)
    /\ tdlog = ExpectedTeardown

\* C8: a teardown command that fails (an unmount of a busy or absent
\* mount, a detach of a busy loop device) never raises and never stops
\* the teardown: every run ends with a teardown that issued every
\* unmount of its list, then the detach, then the settle.
C8_TeardownNeverStops ==
  phase = "exited" => (finalCleanup = "completed" /\ tdlog = ExpectedTeardown)

\* a run that ended after a teardown command failed on a live mount or
\* on the attached loop device
C8_Witness ==
  /\ TornDown
  /\ variant \in {"final", "mbr4"}
  /\ attaches = 1
  /\ tdfail >= 1
  /\ mtab # <<>> \/ attached

\* C9: after patch_bls_entries of the argparse flashers, every options
\* line holds exactly one root= token and it is root=UUID=<new>, and
\* exactly one rootflags= token and it is rootflags=subvol=root, whatever
\* the line held before (several root= or rootflags= tokens included).
C9_OneRootOneRootflags ==
  (patcher = "full" /\ patchRuns >= 1) =>
    \A l \in OptionsLines(bls) :
      LET roots == {i \in ArgStarts(l) : HasPrefixAt(l, i, L_root)}
          flags == {i \in ArgStarts(l) : HasPrefixAt(l, i, L_rootflags)}
      IN  /\ Cardinality(roots) = 1
          /\ \A i \in roots : TokenAt(l, i) = L_rootUUID \o ids[3]
          /\ Cardinality(flags) = 1
          /\ \A i \in flags : TokenAt(l, i) = L_subvolroot

C12_ConfirmedBeforeDestruction ==
  (variant = "final" /\ \E k \in Passed : Destructive(Program[k])) =>
    /\ "force" \in DOMAIN args \/ "confirm" \in DOMAIN args
    /\ \E j \in Passed :
         /\ Program[j].op = "lsblk_tree" /\ Program[j].err # "ignore"
         /\ \A k \in 1..j : ~Destructive(Program[k])

\* C13: when the run aborts with a configuration error (die() on a
\* malformed --efi-size or --boot-size, or on an image without a root
\* subvolume), the target disk has not been wiped, partitioned or
\* formatted.
C13_ConfigErrorBeforeSideEffects ==
  ( /\ variant = "final" /\ phase \in {"finally", "exited"}
    /\ exc = DIE /\ pc <= Len(Program)
    /\ Cur.op \in {"parse_size", "require_root_subvol"} )
  => /\ \A k \in Passed : ~Destructive(Program[k])
     /\ \A n \in 1..4 : partUuid[n] = StaleUuid(n)

\* C14: on a host where a required tool, the image path or the disk path
\* is missing, or whose disk is too small for the mandatory partitions,
\* a run that ends with an error of its own (not with an interrupt) has
\* run no unmount of the target's filesystems, no wipefs, parted or mkfs.
C14_PreconditionBeforeDestruction ==
  ( /\ variant = "final" /\ fault # "none"
    /\ phase \in {"refused", "exited"} /\ exc \in {DIE, CPE, FNF} ) =>
    \A k \in Passed :
      ~Destructive(Program[k]) /\ Program[k].op # "umount_disk"

\* C15: for home and for var, a successful run made the source mount, the
\* destination subvolume, the destination mount, the copy and the fstab
\* line if the image has the subvolume and none of them if it has not,
\* and no run fails at one of these steps on an image that lacks the
\* subvolume.
C15_OptionalSubvolumes ==
  \A X \in {"home", "var"} :
    /\ Succeeded =>
         \A f \in DOMAIN MadeFor(X) : MadeFor(X)[f] = HasSubvol(X)
    /\ ~( /\ phase \in {"finally", "exited"} /\ exc \in {CPE, DIE}
          /\ pc <= Len(Program) /\ StepAbout(Cur, X)
          /\ ~HasSubvol(X) )

\* C16: a successful run of an argparse flasher made and formatted
\* partitions 1..3, and partition 4 iff make-data is set, and wrote an
\* fstab with one btrfs line for / and one for each of /home and /var
\* that the image has, one /boot line, one /boot/efi line, one /data
\* line iff make-data is set, and no other line.
C16_PartitionsAndFstab ==
  (Succeeded /\ variant \in {"final", "mbr4"}) =>
    /\ PartsMade = 1..(3 + Num(args.make_data))
    /\ PartsFormatted = PartsMade
    /\ FstabCount("/", "btrfs") = 1
    /\ FstabCount("/home", "btrfs") = Num(has_home)
    /\ FstabCount("/var", "btrfs") = Num(has_var)
    /\ FstabCount("/boot", "ext4") = 1
    /\ FstabCount("/boot/efi", "vfat") = 1
    /\ FstabCount("/data", "ext4") = Num(args.make_data)
    /\ Len(fstab) = 3 + Num(has_home) + Num(has_var) + Num(args.make_data)

\* the end-to-end scenario: root+home+var image, GPT, make-data: four
\* partitions and 3+1+1+1 fstab lines
C16_Witness ==
  /\ Succeeded /\ variant = "final"
  /\ args.scheme = "gpt" /\ args.make_data /\ has_home /\ has_var
  /\ PartsMade = 1..4
  /\ Len(fstab) = 6

\* C17: the partitions requested from parted have increasing offsets that
\* do not overlap: each one starts before it ends and ends no later than the
\* next one starts; the first one is the FAT32 EFI partition.
C17_IncreasingOffsets ==
  /\ \A i \in 1..Len(parts) :
       /\ parts[i].start < parts[i].end
       /\ i < Len(parts) => parts[i].end <= parts[i + 1].start
  /\ parts # <<>> => parts[1].fs = "fat32"

\* C18: once the firmware copy, the second of the two EFI merges, has
\* returned, the destination EFI partition holds the Fedora loaders of the
\* image's EFI tree and the firmware files of the firmware directory.
C18_BothTreesKept ==
  (LET prog == Program IN \E k \in Passed : prog[k].op = "rsync_pftf") =>
    /\ \A f \in {"EFI/fedora/grubaa64.efi", "EFI/BOOT/BOOTAA64.EFI"} :
         efi[f].kind = "image"
    /\ \A f \in {"RPI_EFI.fd", "start4.elf"} : efi[f].kind = "pftf"
    /\ efi["config.txt"].kind # "absent"

\* a copy was the step that failed
CopyFailed == last = "failed" /\ pc <= Len(Program) /\ IsCopy(Cur)

\* C19: a copy that returns non-zero aborts the run: the try block stops
\* at the copy, so that config.txt, the UUID queries, fstab and the GRUB
\* stub are never written; the finally block's teardown is started; the
\* exception in flight is the copy's own (die() with the phase description
\* from rsync_progress, CalledProcessError with the command line from
\* rsync_vfat_safe); and no copy's failure lets the try block go on.
C19_CopyFailureAborts ==
  /\ CopyFailed =>
       /\ phase \in {"finally", "exited"}
       /\ finalCleanup # "notrun"
       /\ phase = "finally" => exc = raised(Cur)
       /\ fstab = <<>>
       /\ \A n \in 1..4 : ids[n] = <<>>
       /\ efi["config.txt"].kind # "generated"
       /\ efi[GrubCfg].kind # "stub"
  /\ ~(last = "ignored" /\ pc > 1 /\ IsCopy(Program[pc - 1]))

\* the firmware copy of holy-loop-fedora-ninja-final.py failed and the
\* teardown ran to its end
C19_Witness ==
  /\ variant = "final" /\ CopyFailed /\ Cur.op = "rsync_pftf"
  /\ exc = CPE /\ TornDown /\ exitcode = 1

\* the step is one of the pipeline steps: the signature wipe, partitioning,
\* formatting, the loop attach, a mount, a copy, a rewrite, the initramfs
\* regeneration
PipelineStep(step) ==
  \/ step.op \in {"wipefs", "parted", "mkfs", "losetup", "mount",
                  "btrfs_subvolume_create", "write_config", "write_fstab",
                  "write_grub_stub", "patch_bls_entries", "dracut"}
  \/ IsCopy(step)

\* C20: no pipeline step of holy-loop-fedora-ninja-final.py fails with the
\* try block going on to the next step: a failed step aborts to teardown.
C20_SucceedOrAbort ==
  ~( /\ variant = "final"
     /\ last = "ignored"
     /\ pc > 1
     /\ PipelineStep(Program[pc - 1]) )

\* C21: a flasher exits with status 0 only when its try block ran to the
\* end with no step raising; a run in which a command failed or die() was
\* called exits with a non-zero status.
C21_ExitStatus ==
  /\ Succeeded => pc = Len(Program) + 1 /\ last # "failed"
  /\ (phase = "exited" /\ last = "failed") => exitcode # 0

\* the destination boot partition has no loader/entries directory, or the
\* directory holds no *.conf file
NoEntries == ~bls.exists \/ bls.files = <<>>

\* C22: when the BLS patch step runs and the destination has no entries
\* directory, or one without *.conf files, the step writes nothing and
\* raises nothing: the only exception that can appear is a SIGINT's.
C22_MissingEntriesSkipped ==
  [][ (phase = "try" /\ cpos = 0 /\ pc <= Len(Program)
       /\ Cur.op = "patch_bls_entries" /\ NoEntries)
      => /\ bls' = bls
         /\ last' # "failed"
         /\ exc' \in {"none", "KeyboardInterrupt"} ]_vars

\* a complete run with dracut on an image without an entries directory
\* ended as a success
C22_Witness ==
  /\ Succeeded /\ variant = "final" /\ ~args.no_dracut
  /\ ~bls.exists
  /\ \E k \in 1..Len(tdlog) : tdlog[k] = DetachCmd

\* the pseudo-filesystem mount points in the destination root
PseudoMounts ==
  {DST \o <<"root_sub_root">> \o p :
     p \in {<<"dev">>, <<"dev", "pts">>, <<"proc">>, <<"sys">>, <<"run">>, <<"tmp">>}}

C24_VerifiedBeforeSuccess ==
  (Succeeded /\ variant \in {"final", "mbr4"}) =>
    /\ \A f \in {"start4.elf", "RPI_EFI.fd", "EFI/BOOT/BOOTAA64.EFI", "config.txt"} :
         efi[f].kind # "absent"
    /\ bls.exists
    /\ fstab # <<>>
    /\ efi[GrubCfg].kind = "stub"
    /\ efi[GrubCfg].search = partUuid[2]

\* the mount point of the destination subvolume sub
DstSubvolMount(sub) ==
  DST \o << CASE sub = "root" -> "root_sub_root"
              [] sub = "home" -> "root_sub_home"
              [] sub = "var" -> "root_sub_var" >>

\* the index in prog of the mount of path, 0 when prog has none
MountIndex(prog, path) ==
  IF \E k \in 1..Len(prog) : prog[k].op = "mount" /\ prog[k].a = path
  THEN CHOOSE k \in 1..Len(prog) : prog[k].op = "mount" /\ prog[k].a = path
  ELSE 0

\* C25: in a run of an argparse flasher, a destination subvolume that is
\* mounted was created before, after the mount of the destination top-level
\* volume, and every subvolume creation of the run precedes the first
\* subvolume mount (read off the try block while it runs); the binds of
\* /boot and /boot/efi into the destination root are made only with the
\* root subvolume mounted before them.
C25_DestinationMountOrder ==
  (variant \in {"final", "mbr4"} /\ acquired # <<>>) =>
    LET prog == Program
        top == MountIndex(prog, DST \o <<"root_top">>)
        creates == {j \in 1..Len(prog) : prog[j].op = "btrfs_subvolume_create"}
        pos(path) == CHOOSE i \in 1..Len(acquired) : acquired[i] = path
        has(path) == \E i \in 1..Len(acquired) : acquired[i] = path
    IN  /\ \A sub \in {"root", "home", "var"} :
             has(DstSubvolMount(sub)) =>
               /\ has(DST \o <<"root_top">>)
               /\ pos(DST \o <<"root_top">>) < pos(DstSubvolMount(sub))
               /\ phase = "try" =>
                    /\ \E j \in creates : prog[j].a = <<sub>>
                    /\ LET m == MountIndex(prog, DstSubvolMount(sub))
                       IN  \A j \in creates : top < j /\ j < m /\ m < pc
        /\ \A b \in {<<"boot">>, <<"boot", "efi">>} :
             has(DST \o <<"root_sub_root">> \o b) =>
               /\ has(DST \o <<"root_sub_root">>)
               /\ pos(DST \o <<"root_sub_root">>) < pos(DST \o <<"root_sub_root">> \o b)

\* the binds of /boot and /boot/efi were made in a run that created and
\* mounted the three subvolumes
C25_Witness ==
  /\ variant = "final" /\ has_home /\ has_var
  /\ \E i \in 1..Len(acquired) : acquired[i] = DST \o <<"root_sub_root", "boot", "efi">>
  /\ \E i \in 1..Len(acquired) : acquired[i] = DST \o <<"root_sub_var">>
  /\ \E i \in 1..Len(acquired) : acquired[i] = DST \o <<"root_sub_home">>

\* the indexes in prog of the steps that satisfy test
StepsOf(prog, test(_)) == {k \in 1..Len(prog) : test(prog[k])}

\* every index of A is below every index of B
Before(A, B) == \A a \in A : \A b \in B : a < b

\* C26: in a run of an argparse flasher the image is loop-attached only
\* when every partition of the layout carries the filesystem this run made
\* on it; and once a partition is formatted, the try block has passed, in
\* this order, the unmount of the target disk's filesystems, the signature
\* wipe, the new partition table with all its partitions, a settle of the
\* device nodes, and it formats every partition before it attaches the
\* image.
C26_ProvisioningOrder ==
  variant \in {"final", "mbr4"} =>
    /\ attaches > 0 =>
         \A n \in 1..(3 + Num(args.make_data)) : partUuid[n] = FreshUuid(n)
    /\ (phase = "try" /\ \E n \in 1..4 : partUuid[n] = FreshUuid(n)) =>
         LET prog == Program
             isU(st) == st.op = "umount_disk"
             isW(st) == st.op = "wipefs"
             isL(st) == st.op = "parted" /\ st.a[1] = "mklabel"
             isP(st) == st.op = "parted" /\ st.a[1] = "mkpart"
             isS(st) == st.op = "udev_settle"
             isK(st) == st.op = "mkfs"
             isA(st) == st.op = "losetup"
             U == StepsOf(prog, isU)
             W == StepsOf(prog, isW)
             L == StepsOf(prog, isL)
             P == StepsOf(prog, isP)
             S == StepsOf(prog, isS)
             K == StepsOf(prog, isK)
             A == StepsOf(prog, isA)
         IN  /\ Cardinality(U) = 1 /\ Cardinality(W) = 1 /\ Cardinality(L) = 1
             /\ Cardinality(A) = 1
             /\ {prog[k].n : k \in P} = 1..(3 + Num(args.make_data))
             /\ {prog[k].n : k \in K} = 1..(3 + Num(args.make_data))
             /\ Before(U, W) /\ Before(W, L) /\ Before(L, P) /\ Before(P, K)
             /\ Before(K, A)
             /\ \E s \in S : Before(P, {s}) /\ Before({s}, K)
             /\ \A k \in P : k < pc

\* a run with a data partition attached the image after the four
\* partitions were formatted
C26_Witness ==
  /\ variant = "final" /\ args.make_data /\ attaches = 1 /\ phase = "try"
  /\ \A n \in 1..4 : partUuid[n] = FreshUuid(n)
  /\ fault = "none"

\* C27: when holy-loop-fedora-ninja-final.py has just run dracut in the
\* chroot, the destination root has /boot, /boot/efi, /dev, /dev/pts, /proc,
\* /sys, /run and /tmp mounted in it, fstab is written and the BLS patch
\* step is behind.
C27_DracutEnvironment ==
  (variant = "final" /\ phase = "try" /\ cpos = 0 /\ pc > 1
   /\ (LET prog == Program IN prog[pc - 1].op = "dracut")) =>
    /\ \A m \in PseudoMounts : IsMounted(m)
    /\ IsMounted(DST \o <<"root_sub_root", "boot">>)
    /\ IsMounted(DST \o <<"root_sub_root", "boot", "efi">>)
    /\ fstab # <<>>
    /\ LET prog == Program
       IN  \E k \in Passed : prog[k].op = "patch_bls_entries"

\* the try block has written the GRUB stub
StubWritten == LET prog == Program IN \E k \in Passed : prog[k].op = "write_grub_stub"

\* C28: in the flashers that write the GRUB stub, the stub step comes after
\* both EFI copies, and from the moment it is written EFI/fedora/grub.cfg
\* is the generated stub with the boot UUID the run read: no copied
\* grub.cfg is in its place and no later step changes it.
C28_StubWrittenLast ==
  /\ phase = "try" =>
       LET prog == Program
           isE(st) == st.op \in {"rsync_efi_tree", "rsync_pftf"}
           isG(st) == st.op = "write_grub_stub"
       IN  /\ Cardinality(StepsOf(prog, isE)) = 2
           /\ Cardinality(StepsOf(prog, isG)) = 1
           /\ Before(StepsOf(prog, isE), StepsOf(prog, isG))
  /\ StubWritten =>
       /\ efi[GrubCfg].kind = "stub"
       /\ efi[GrubCfg].search = ids[2]

\* each of the three flashers ended a run with its stub in place
C28_Witness ==
  /\ Succeeded /\ StubWritten
  /\ efi[GrubCfg] = [kind |-> "stub", search |-> FreshUuid(2)]
  /\ efi["EFI/BOOT/BOOTAA64.EFI"].kind = "image"
  /\ efi["RPI_EFI.fd"].kind = "pftf"

-----------------------------------------------------------------------------
(* mash_full_loop.main: flash, stage the bootstrap, edit the root offline *)

\* the --disk values tried; "/dev/sda" is the argparse default
Disks == {"/dev/sda", "/dev/sdb", "/dev/sdc"}

mnt_data == "/mnt/mash_data_stage"
mnt_root == "/mnt/mash_root_stage"
mnt_boot == "/mnt/mash_root_stage/boot"
mnt_efi == "/mnt/mash_root_stage/boot/efi"

\* f"{disk}{n}", the flasher's and the orchestrator's name of a partition
PartDev(disk, n) == [disk |-> disk, n |-> n]

\* a filesystem named by its label
ByLabel(label) == [label |-> label]

\* the mount points below path
Beneath(path) ==
  IF path = mnt_root THEN {mnt_boot, mnt_efi}
  ELSE IF path = mnt_boot THEN {mnt_efi}
  ELSE {}

\* umount -R path: path and everything below it
umount_R(mounts, path) == {m \in mounts : m.on # path /\ m.on \notin Beneath(path)}

\* umount path: refused while something is mounted below it
umount_plain(mounts, path) ==
  IF \E m \in mounts : m.on \in Beneath(path) THEN mounts
  ELSE {m \in mounts : m.on # path}

\* the disk whose partitions mount_root_subvol mounts: main passes no disk,
\* so the parameter's default is used
root_subvol_disk(a) == "/dev/sda"

InitFullLoop ==
  /\ orch \in [pc : {"flash"}, disk : Disks, dry_run : BOOLEAN,
               skip_bootstrap_stage : BOOLEAN, skip_offline_locale : BOOLEAN,
               auto_firstboot : BOOLEAN, flashed : {"none"}, mnt_root : {FALSE},
               mounts : {{}}, exc : {"none"}, code : {-1}]
  /\ variant = "mbr4"
  /\ args = [scheme |-> "mbr", make_data |-> TRUE, no_dracut |-> FALSE]
  /\ fault = "none"
  /\ phase = "try"
  /\ parts = <<>>
  /\ last = "none"
  /\ pc = 1
  /\ exc = "none"
  /\ cpos = 0
  /\ finalCleanup = "notrun"
  /\ intInFinally = FALSE
  /\ has_home = FALSE
  /\ has_var = FALSE
  /\ loopdev = "None"
  /\ attached = FALSE
  /\ attaches = 0
  /\ detaches = 0
  /\ mtab = <<>>
  /\ acquired = <<>>
  /\ unmounted = <<>>
  /\ tdlog = <<>>
  /\ tdfail = 0
  /\ partUuid = [n \in 1..4 |-> StaleUuid(n)]
  /\ ids = [n \in 1..4 |-> <<>>]
  /\ efi = StaleTree
  /\ bls = StaleBls
  /\ fstab = <<>>
  /\ exitcode = -1
  /\ patcher = "none"
  /\ blsOrig = NoDir
  /\ blsOnce = NoDir
  /\ patchRuns = 0

UNCH_orch ==
  UNCHANGED <<variant, args, phase, pc, exc, cpos, finalCleanup, intInFinally,
              has_home, has_var, loopdev, attached, attaches, detaches, mtab,
              acquired, unmounted, tdlog, tdfail, partUuid, ids, efi, bls, fstab,
              exitcode, patcher, blsOrig, blsOnce, patchRuns, fault, last, parts>>

\* an exception leaves main: the interpreter prints it and exits with 1
OrchRaise(e) == orch' = [orch EXCEPT !.pc = "exited", !.exc = e, !.code = 1]

\* sh(ninja_cmd, check=True), or its DRY-RUN line
Flash ==
  /\ orch.pc = "flash"
  /\ \/ orch.dry_run /\ orch' = [orch EXCEPT !.pc = "stage"]
     \/ ~orch.dry_run
        /\ orch' = [orch EXCEPT !.pc = "stage", !.flashed = orch.disk]
     \/ ~orch.dry_run /\ OrchRaise(CPE)
  /\ UNCH_orch

\* --skip-bootstrap-stage, or mount_by_label returned False
StageSkipped ==
  /\ orch.pc = "stage"
  /\ orch' = [orch EXCEPT !.pc = "root"]
  /\ UNCH_orch

\* mount_by_label("DATA", mnt_data) returns True
MountData ==
  /\ orch.pc = "stage"
  /\ ~orch.skip_bootstrap_stage
  /\ orch' = [orch EXCEPT !.pc = "staging",
                !.mounts = IF orch.dry_run THEN @
                           ELSE umount_R(@, mnt_data)
                                \cup {[dev |-> ByLabel("DATA"), on |-> mnt_data]}]
  /\ UNCH_orch

\* stage_bootstrap returns and main unmounts mnt_data, or a copy raises
StageBootstrap ==
  /\ orch.pc = "staging"
  /\ \/ orch' = [orch EXCEPT !.pc = "root",
                   !.mounts = IF orch.dry_run THEN @ ELSE umount_plain(@, mnt_data)]
     \/ ~orch.dry_run /\ OrchRaise("OSError")
  /\ UNCH_orch

\* neither offline edit is asked for: mnt_root stays None
RootSkipped ==
  /\ orch.pc = "root"
  /\ orch.skip_offline_locale /\ ~orch.auto_firstboot
  /\ orch' = [orch EXCEPT !.pc = "locale"]
  /\ UNCH_orch

\* mount_root_subvol(mnt_root, dry_run=args.dry_run)
mount_root_subvol ==
  /\ orch.pc = "root"
  /\ ~orch.skip_offline_locale \/ orch.auto_firstboot
  /\ \/ orch.dry_run /\ orch' = [orch EXCEPT !.pc = "locale", !.mnt_root = TRUE]
     \/ ~orch.dry_run
        /\ \E boot_ok, efi_ok \in BOOLEAN :
             LET disk == root_subvol_disk(orch)
                 root == {[dev |-> ByLabel("FEDORA"), on |-> mnt_root]}
                 boot == IF boot_ok
                         THEN {[dev |-> PartDev(disk, 2), on |-> mnt_boot]} ELSE {}
                 esp  == IF efi_ok
                         THEN {[dev |-> PartDev(disk, 1), on |-> mnt_efi]} ELSE {}
             IN  orch' = [orch EXCEPT !.pc = "locale", !.mnt_root = TRUE,
                            !.mounts = umount_R(@, mnt_root) \cup root \cup boot \cup esp]
     \/ ~orch.dry_run
        /\ orch' = [orch EXCEPT !.pc = "exited", !.exc = CPE, !.code = 1,
                      !.mounts = umount_R(@, mnt_root)]
  /\ UNCH_orch

\* offline_locale_patch, when asked for and mnt_root is set
LocalePatch ==
  /\ orch.pc = "locale"
  /\ \/ orch' = [orch EXCEPT !.pc = "firstboot"]
     \/ /\ orch.mnt_root /\ ~orch.skip_offline_locale /\ ~orch.dry_run
        /\ OrchRaise("OSError")
  /\ UNCH_orch

\* the --auto-firstboot branch: args has no attribute no_nerd_fonts
Firstboot ==
  /\ orch.pc = "firstboot"
  /\ IF orch.mnt_root /\ orch.auto_firstboot
     THEN OrchRaise("AttributeError")
     ELSE orch' = [orch EXCEPT !.pc = "umount_root"]
  /\ UNCH_orch

\* sh(["umount", str(mnt_root)], check=False) and the closing banner
UmountRoot ==
  /\ orch.pc = "umount_root"
  /\ orch' = [orch EXCEPT !.pc = "exited", !.code = 0,
                !.mounts = IF orch.mnt_root /\ ~orch.dry_run
                           THEN umount_plain(@, mnt_root) ELSE @]
  /\ UNCH_orch

NextFullLoop ==
  \/ Flash
  \/ StageSkipped
  \/ MountData
  \/ StageBootstrap
  \/ RootSkipped
  \/ mount_root_subvol
  \/ LocalePatch
  \/ Firstboot
  \/ UmountRoot

SpecFullLoop == InitFullLoop /\ [][NextFullLoop]_vars

\* C29: when mash_full_loop.main has exited, on success or on a failure,
\* none of the mounts it made (DATA, the root subvolume, /boot and
\* /boot/efi beneath it) is left mounted.
C29_MountsReleased == orch.pc = "exited" => orch.mounts = {}

\* C30: the partitions mounted as /boot and /boot/efi for the offline edits
\* are partitions 2 and 1 of the disk given as --disk, the one that was
\* passed to the flasher.
C30_BootPartsOfDisk ==
  \A m \in orch.mounts :
    /\ m.on = mnt_boot => m.dev = PartDev(orch.disk, 2) /\ orch.flashed = orch.disk
    /\ m.on = mnt_efi => m.dev = PartDev(orch.disk, 1) /\ orch.flashed = orch.disk

====
